---------------------------- MODULE Spec2Model ----------------------------
(***************************************************************************)
(* A model of pynisurf's BIDS filename codec: fn2info (filename -> ordered *)
(* mapping) and info2fn (ordered mapping -> filename) of pynisurf/bids.py. *)
(*                                                                         *)
(* A Python str is a sequence of one-character strings, so that slicing,   *)
(* searching, splitting and joining are computed and not assumed.  A       *)
(* Python dict is a sequence of <<key, value>> pairs with pairwise         *)
(* distinct keys, in insertion order.                                      *)
(***************************************************************************)
EXTENDS Integers, Sequences, FiniteSets, TLC

VARIABLES
    filename,   \* the filename the caller decodes
    vocab,      \* the `modality` list the caller passes to fn2info
    info,       \* the caller's mapping object (result of fn2info, or built by the caller)
    fn,         \* the string returned by the last info2fn call
    pc,         \* the last call made: "start", "fn2info" or "info2fn"
    origin,     \* who built the object `info`: "caller", "fn2info", or "none"
                \* while the caller has no mapping yet
    nenc,       \* number of info2fn calls made so far on the object `info`
    err,        \* the exception raised by the last call, "none" if it returned
    vsep,       \* the `value_sep` the caller passes to fn2info and info2fn
    held,       \* the mapping objects fn2info returned that the caller keeps
                \* under other names, as they are now
    environ,    \* os.environ: the environment variables of the process
    disk,       \* the directories and files the process sees
    shell,      \* the commands started through subprocess / os.system, and their exits
    call        \* the last call of a function that works on environ and disk

vars == <<filename, vocab, info, fn, pc, origin, nenc, err, vsep, held, environ, disk, shell,
          call>>

\* the state of the codec, and the state of the process around it
args == <<filename, vocab, vsep>>
sysvars == <<environ, disk, shell, call>>

-----------------------------------------------------------------------------
(* Bounds of the model                                                     *)

MaxLen == 4        \* longest filename drawn character by character
MaxSecs == 3       \* most sections of a filename drawn word by word
MaxIdLen == 1      \* longest <id>, <t>, <r> of a standard name
MaxEntries == 2    \* most entries of a mapping built by the caller
MaxEnc == 3        \* most info2fn calls on one mapping object
MaxHeld == 2
MaxCmds == 2       \* most commands of a list passed to runcmd

-----------------------------------------------------------------------------
(* Python str and list primitives                                          *)

\* s[i:] for a 0-based i with 0 <= i <= len(s)
SliceFrom(s, i) == SubSeq(s, i + 1, Len(s))

\* s[:i] for a 0-based i with 0 <= i <= len(s)
SliceTo(s, i) == SubSeq(s, 1, i)

\* does pat occur in s at the 0-based position i
MatchAt(pat, s, i) ==
    /\ i + Len(pat) <= Len(s)
    /\ \A j \in 1..Len(pat) : s[i + j] = pat[j]

\* str.find(pat): 0-based position of the first occurrence of pat in s, -1 if none
StrFind(pat, s) ==
    LET hits == { i \in 0..Len(s) : MatchAt(pat, s, i) }
    IN  IF hits = {} THEN -1
        ELSE CHOOSE i \in hits : \A j \in hits : i <= j

\* `pat in s` (the negation of `pat not in s`)
StrIn(pat, s) == StrFind(pat, s) # -1

\* re.search(pat, s) raises re.error for a pattern that is one of these
\* characters alone: a repetition of nothing, an open group, set or escape
ReError(pat) == pat \in { << c >> : c \in { "+", "*", "?", "(", ")", "[", "\\" } }

\* re.search(pat, s).start(): the 0-based start of the first match, -1 when
\* re.search returns None.  A backslash and a character ask for that character;
\* '.' alone matches any one character; '|' and '^' alone match the empty text
\* at the start, '$' alone the empty text at the end; any other text without
\* such characters asks for itself
ReSearchStart(pat, s) ==
    IF Len(pat) = 2 /\ pat[1] = "\\" THEN StrFind(<< pat[2] >>, s)
    ELSE IF pat = << "." >> THEN (IF s = << >> THEN -1 ELSE 0)
    ELSE IF pat \in { << "|" >>, << "^" >> } THEN 0
    ELSE IF pat = << "$" >> THEN Len(s)
    ELSE StrFind(pat, s)

\* s.startswith(prefix)
StartsWith(s, prefix) ==
    /\ Len(prefix) <= Len(s)
    /\ SubSeq(s, 1, Len(prefix)) = prefix

\* s.split(sep) for a non-empty sep: always at least one part
RECURSIVE StrSplit(_, _)
StrSplit(s, sep) ==
    LET p == StrFind(sep, s)
    IN  IF p = -1 THEN << s >>
        ELSE << SliceTo(s, p) >> \o StrSplit(SliceFrom(s, p + Len(sep)), sep)

\* sep.join(parts)
RECURSIVE StrJoin(_, _)
StrJoin(sep, parts) ==
    IF Len(parts) = 0 THEN << >>
    ELSE IF Len(parts) = 1 THEN parts[1]
    ELSE parts[1] \o sep \o StrJoin(sep, Tail(parts))

\* '%d' % n for n >= 0
Digit(d) == << "0", "1", "2", "3", "4", "5", "6", "7", "8", "9" >>[d + 1]

RECURSIVE FormatInt(_)
FormatInt(n) ==
    IF n < 10 THEN << Digit(n) >>
    ELSE FormatInt(n \div 10) \o << Digit(n % 10) >>

\* Basename that keeps the whole path
Basename_Whole(path) == path

\* os.path.basename(filename): the text after the last '/'
RECURSIVE Basename(_)
Basename(path) ==
    LET p == StrFind(<< "/" >>, path)
    IN  IF p = -1 THEN path ELSE Basename(SliceFrom(path, p + 1))

-----------------------------------------------------------------------------
(* Python dict primitives                                                  *)

DictKeys(d) == { d[i][1] : i \in 1..Len(d) }

\* `k in d.keys()`
DictHas(d, k) == k \in DictKeys(d)

DictIndex(d, k) == CHOOSE i \in 1..Len(d) : d[i][1] = k

\* d[k] for a key of d
DictGet(d, k) == d[DictIndex(d, k)][2]

\* DictSet as d.setdefault(k, v): an existing key keeps its value
DictSet_KeepFirst(d, k, v) ==
    IF DictHas(d, k) THEN d ELSE Append(d, << k, v >>)

\* DictSet with an existing key moved to the end
DictSet_MoveToEnd(d, k, v) ==
    Append(SelectSeq(d, LAMBDA e : e[1] # k), << k, v >>)

\* d[k] = v: a new key is appended, an existing key keeps its place
DictSet(d, k, v) ==
    IF DictHas(d, k)
    THEN [ d EXCEPT ![DictIndex(d, k)] = << k, v >> ]
    ELSE Append(d, << k, v >>)

\* d.pop(k) for a key of d
DictPop(d, k) ==
    LET i == DictIndex(d, k)
    IN  SubSeq(d, 1, i - 1) \o SubSeq(d, i + 1, Len(d))

-----------------------------------------------------------------------------
(* Literals of the source                                                  *)

DefaultSecSep == << "_" >>
DefaultValueSep == << "-" >>
Dot == << "." >>
KeyExt == << "e", "x", "t" >>
KeyModality == << "m", "o", "d", "a", "l", "i", "t", "y" >>
KeyCustom == << "c", "u", "s", "t", "o", "m" >>

modality ==
    { <<"b", "o", "l", "d">>,
      <<"s", "b", "r", "e", "f">>,
      <<"e", "p", "i">>,
      <<"T", "1", "w">>,
      <<"T", "2", "w">>,
      <<"s", "c", "a", "n", "s">>,
      <<"e", "v", "e", "n", "t", "s">>,
      <<"i", "n", "f", "l", "a", "t", "e", "d">>,
      <<"m", "i", "d", "t", "h", "i", "c", "k", "n", "e", "s", "s">>,
      <<"p", "i", "a", "l">>,
      <<"s", "m", "o", "o", "t", "h", "w", "m">>,
      <<"p", "r", "o", "b", "s", "e", "g">>,
      <<"t", "i", "m", "e", "s", "e", "r", "i", "e", "s">>,
      <<"x", "f", "m">>,
      <<"b", "o", "l", "d", "r", "e", "f">>,
      <<"d", "s", "e", "g">>,
      <<"m", "a", "s", "k">> }

-----------------------------------------------------------------------------
(* fn2info                                                                 *)

\* ExtIdx with the last '.' in place of the first
ExtIdx_LastDot(fname) ==
    LET dots == { i \in 0..(Len(fname) - 1) : fname[i + 1] = "." }
    IN  IF dots = {} THEN Len(fname)
        ELSE CHOOSE i \in dots : \A j \in dots : j <= i

\* idx: the 0-based position of the first '.', len(fname) when there is none
ExtIdx(fname) ==
    LET re_idx == ReSearchStart(<< "\\" >> \o Dot, fname)
    IN  IF re_idx # -1 THEN re_idx ELSE Len(fname)

\* ExtOf without the '.': fname[idx+1:]
ExtOf_AfterDot(fname) == SliceFrom(fname, ExtIdx(fname) + 1)

\* ext = fname[idx:]
ExtOf(fname) == SliceFrom(fname, ExtIdx(fname))

\* sec = fname[:idx].split(sec_sep)
Sections(fname, sec_sep) == StrSplit(SliceTo(fname, ExtIdx(fname)), sec_sep)

\* no_fieldname = [value_sep not in each for each in sec]
NoFieldname(sec, value_sep) == [ i \in 1..Len(sec) |-> ~ StrIn(value_sep, sec[i]) ]

\* the test `no_fieldname[-1]==True & (sec[-1] in modality)`: `&` binds tighter
\* than `==`, so it compares no_fieldname[-1] with (True & (sec[-1] in modality))
LastIsModality(sec, no_fieldname, modality_list) ==
    no_fieldname[Len(sec)] = (TRUE /\ (sec[Len(sec)] \in modality_list))

\* BackupFields with the custom keys numbered over the bare sections only
BackupFields_BareCount(sec, no_fieldname, modality_list) ==
    [ i \in 1..Len(sec) |->
        IF i = Len(sec) /\ LastIsModality(sec, no_fieldname, modality_list)
        THEN KeyModality
        ELSE KeyCustom \o FormatInt(Cardinality({ j \in 1..i : no_fieldname[j] })) ]

\* BackupFields with 'modality' for every section whose text is in the list
BackupFields_AnyPosition(sec, no_fieldname, modality_list) ==
    [ i \in 1..Len(sec) |->
        IF no_fieldname[i] /\ sec[i] \in modality_list
        THEN KeyModality
        ELSE KeyCustom \o FormatInt(i) ]

\* backup_fields: 'custom%d' % (x+1) for every 0-based position x of sec, the
\* last one replaced by 'modality' when the test above is true
BackupFields(sec, no_fieldname, modality_list) ==
    [ i \in 1..Len(sec) |->
        IF i = Len(sec) /\ LastIsModality(sec, no_fieldname, modality_list)
        THEN KeyModality
        ELSE KeyCustom \o FormatInt(i) ]

\* UpdateSec without the loop: the bare sections stay as they are
UpdateSec_NoBackup(sec, value_sep, modality_list) == sec

\* the loop `sec[i] = backup_fields[i]+value_sep+sec[i]` over the bare sections
UpdateSec(sec, value_sep, modality_list) ==
    LET no_fieldname == NoFieldname(sec, value_sep)
        backup_fields == BackupFields(sec, no_fieldname, modality_list)
    IN  [ i \in 1..Len(sec) |->
            IF no_fieldname[i] THEN backup_fields[i] \o value_sep \o sec[i]
            ELSE sec[i] ]

\* SplitSection at the last occurrence of value_sep in place of the first
SplitSection_LastSep(isec, value_sep) ==
    LET hits == { i \in 0..Len(isec) : MatchAt(value_sep, isec, i) }
        idx == CHOOSE i \in hits : \A j \in hits : j <= i
    IN  << SliceTo(isec, idx), SliceFrom(isec, idx + 1) >>

\* SplitSection with the value taken from the separator on: isec[idx.start():]
SplitSection_KeepSep(isec, value_sep) ==
    LET idx == ReSearchStart(value_sep, isec)
    IN  << SliceTo(isec, idx), SliceFrom(isec, idx) >>

\* idx = re.search(value_sep, isec); the pair (isec[:idx.start()], isec[idx.start()+1:])
SplitSection(isec, value_sep) ==
    LET idx == ReSearchStart(value_sep, isec)
    IN  << SliceTo(isec, idx), SliceFrom(isec, idx + 1) >>

\* the (key, value) pair the loop `for isec in sec` takes from each section
KeyValuePairs(sec, value_sep) ==
    [ i \in 1..Len(sec) |-> SplitSection(sec[i], value_sep) ]

\* the assignments `info[key] = value` for the first n pairs, starting from {}
RECURSIVE InsertPairs(_, _)
InsertPairs(pairs, n) ==
    IF n = 0 THEN << >>
    ELSE DictSet(InsertPairs(pairs, n - 1), pairs[n][1], pairs[n][2])

\* fn2info(filename, sec_sep, value_sep, modality): the mapping returned, the
\* re.error of the first re.search(value_sep, isec) for a value_sep that is no
\* regular expression, or the AttributeError of `idx.start()` when re.search
\* finds no value_sep in a section
fn2info(name, sec_sep, value_sep, modality_list) ==
    LET fname == Basename(name)
        ext == ExtOf(fname)
        sec == UpdateSec(Sections(fname, sec_sep), value_sep, modality_list)
    IN  IF ReError(value_sep) THEN [ err |-> "re.error", info |-> << >> ]
        ELSE IF \E i \in 1..Len(sec) : ReSearchStart(value_sep, sec[i]) = -1
        THEN [ err |-> "AttributeError", info |-> << >> ]
        ELSE [ err |-> "none",
               info |-> DictSet(InsertPairs(KeyValuePairs(sec, value_sep), Len(sec)),
                                KeyExt, ext) ]

-----------------------------------------------------------------------------
(* info2fn                                                                 *)

\* ext = info['ext'] if 'ext' in info.keys() else ''
SavedExt(d) == IF DictHas(d, KeyExt) THEN DictGet(d, KeyExt) ELSE << >>

\* PopExt as info.popitem(): the last entry goes, whatever its key
PopExt_PopItem(d) == IF d = << >> THEN d ELSE SubSeq(d, 1, Len(d) - 1)

\* PopExt on a copy: the caller's mapping keeps `ext`
PopExt_OnCopy(d) == d

\* the mapping after `info.pop('ext')`, which runs only when 'ext' is a key
PopExt(d) == IF DictHas(d, KeyExt) THEN DictPop(d, KeyExt) ELSE d

\* SectionOf with `k == 'custom'` in place of `k.startswith('custom')`
SectionOf_ExactCustom(k, v, value_sep) ==
    IF k = KeyCustom \/ k = KeyModality THEN v
    ELSE k \o value_sep \o v

\* SectionOf without the test for the key 'modality'
SectionOf_CustomOnly(k, v, value_sep) ==
    IF StartsWith(k, KeyCustom) THEN v
    ELSE k \o value_sep \o v

\* the section appended for an item (k, v)
SectionOf(k, v, value_sep) ==
    IF StartsWith(k, KeyCustom) \/ k = KeyModality THEN v
    ELSE k \o value_sep \o v

\* sec: one section per item of the mapping, in iteration order
ItemSections(d, value_sep) ==
    [ i \in 1..Len(d) |-> SectionOf(d[i][1], d[i][2], value_sep) ]

\* info2fn with `ext = info.pop('ext')` and no test for the key: a KeyError
\* when the mapping has no `ext`
info2fn_NoKeyTest(d, sec_sep, value_sep) ==
    IF ~ DictHas(d, KeyExt)
    THEN [ err |-> "KeyError", fn |-> << >>, info |-> d ]
    ELSE [ err |-> "none",
           fn |-> StrJoin(sec_sep, ItemSections(DictPop(d, KeyExt), value_sep))
                    \o DictGet(d, KeyExt),
           info |-> DictPop(d, KeyExt) ]

\* info2fn(info, sec_sep, value_sep): the string returned and the caller's
\* mapping as the call leaves it
info2fn(d, sec_sep, value_sep) ==
    LET ext == SavedExt(d)
        left == PopExt(d)
    IN  [ err |-> "none",
          fn |-> StrJoin(sec_sep, ItemSections(left, value_sep)) \o ext,
          info |-> left ]

-----------------------------------------------------------------------------
(* Inputs                                                                  *)

\* every string over `chars` of length at most n
StringsUpTo(chars, n) == UNION { [ 1..k -> chars ] : k \in 0..n }

\* filenames drawn character by character
Alphabet == { "a", "-", "_", "." }
CharNames == StringsUpTo(Alphabet, MaxLen)

\* filenames drawn section by section, with the extension '.nii.gz'
Words ==
    { << "T", "1", "w" >>,
      << "t", "1", "w" >>,
      << "d", "e", "s", "c", "-", "a", "-", "b" >>,
      << "d", "e", "s", "c", "-" >>,
      KeyModality \o << "-", "x" >>,
      KeyCustom \o << "2", "-", "y" >>,
      KeyExt \o << "-", "z" >> }
WordNames ==
    { StrJoin(DefaultSecSep, ws) \o << ".", "n", "i", "i", ".", "g", "z" >> :
        ws \in UNION { [ 1..k -> Words ] : k \in 1..MaxSecs } }

\* the names sub-<id>_task-<t>_run-<r>_bold.nii.gz
IdChars == { "1", "S" }
Ids == StringsUpTo(IdChars, MaxIdLen) \ { << >> }
StandardName(id, t, r) ==
    << "s", "u", "b", "-" >> \o id \o << "_", "t", "a", "s", "k", "-" >> \o t
        \o << "_", "r", "u", "n", "-" >> \o r
        \o << "_", "b", "o", "l", "d", ".", "n", "i", "i", ".", "g", "z" >>
StandardNames == { StandardName(id, t, r) : id \in Ids, t \in Ids, r \in Ids }

\* the names of the docstring examples of fn2info, 'sub-01_T1w' and
\* 'sub-1_task-S_run-4_bold.nii.gz'
Example1 ==
    <<"s", "u", "b", "-", "0", "0", "2", "_", "T", "a", "s", "k", "N", "a", "m", "e",
      "_", "s", "e", "s", "-", "0", "0", "1", "_", "R", "u", "n", "-", "0", "1",
      "_", "b", "o", "l", "d", ".", "n", "i", "i", ".", "g", "z">>
Example2 ==
    <<"s", "u", "b", "-", "S", "0", "2", "_", "t", "a", "s", "k", "-", "T", "N",
      "_", "r", "u", "n", "-", "4", "_", "s", "p", "a", "c", "e", "-", "f", "s", "n",
      "a", "t", "i", "v", "e", "_", "h", "e", "m", "i", "-", "L", "_", "b", "o", "l",
      "d", ".", "f", "u", "n", "c", ".", "g", "i", "i">>
Example3 ==
    <<"s", "u", "b", "-", "1", "_", "t", "a", "s", "k", "-", "S", "_", "r", "u", "n",
      "-", "4", "_", "s", "p", "a", "c", "e", "-", "f", "s", "L", "R", "_", "d", "e",
      "n", "-", "9", "1", "k", "_", "b", "o", "l", "d", ".", "d", "t", "s", "e", "r",
      "i", "e", "s", ".", "n", "i", "i">>
Example4 == << "s", "u", "b", "-", "0", "1", "_", "T", "1", "w" >>
Example5 ==
    <<"s", "u", "b", "-", "1", "_", "t", "a", "s", "k", "-", "S", "_", "r", "u", "n",
      "-", "4", "_", "b", "o", "l", "d", ".", "n", "i", "i", ".", "g", "z">>
ExampleNames == { Example1, Example2, Example3, Example4, Example5 }

Filenames == CharNames \cup WordNames \cup StandardNames \cup ExampleNames

\* a `modality` list of the caller's own, one entry of it holding the separator,
\* and the names decoded with it
CallerVocab == { << "t", "1", "w" >>, << "d", "e", "s", "c", "-", "a", "-", "b" >> }
VocabWords ==
    { << "T", "1", "w" >>,
      << "t", "1", "w" >>,
      << "d", "e", "s", "c", "-", "a", "-", "b" >>,
      << "d", "e", "s", "c", "-" >> }
VocabNames ==
    { StrJoin(DefaultSecSep, ws) \o << ".", "n", "i", "i", ".", "g", "z" >> :
        ws \in UNION { [ 1..k -> VocabWords ] : k \in 1..MaxSecs } }

\* mappings built by the caller: pairwise distinct keys, in any order
CallerKeys ==
    { << "c", "u", "s", "t" >>, KeyCustom, KeyCustom \o << "1", "2" >>, KeyModality, KeyExt }
CallerValues == { << >>, << ".", "g", "z" >>, << "a", "-", "b" >> }
CallerMappings ==
    { d \in UNION { [ 1..k -> CallerKeys \X CallerValues ] : k \in 0..MaxEntries } :
        \A i, j \in 1..Len(d) : i # j => d[i][1] # d[j][1] }

-----------------------------------------------------------------------------
(* The calls                                                               *)

\* no function that works on the environment or the disk has been called
NoCall == [ name |-> "none" ]
NoShell == [ ran |-> << >>, exits |-> << >> ]
SysIdle ==
    /\ environ = << >>
    /\ disk = {}
    /\ shell = NoShell
    /\ call = NoCall

\* the caller holds either a filename still to be decoded, with the default or
\* its own `modality` list, or a mapping it built
Init ==
    /\ \/ filename \in Filenames /\ vocab = modality /\ info = << >> /\ origin = "none"
       \/ filename \in VocabNames /\ vocab = CallerVocab /\ info = << >> /\ origin = "none"
       \/ filename = << >> /\ vocab = modality /\ info \in CallerMappings /\ origin = "caller"
    /\ vsep = DefaultValueSep
    /\ held = << >>
    /\ fn = << >>
    /\ pc = "start"
    /\ nenc = 0
    /\ err = "none"
    /\ SysIdle

\* info = fn2info(filename): the caller's variable is bound to a new mapping
Fn2info ==
    LET r == fn2info(filename, DefaultSecSep, vsep, vocab)
    IN  /\ err' = r.err
        /\ IF r.err = "none"
           THEN /\ info' = r.info
                /\ origin' = "fn2info"
                /\ nenc' = 0
           ELSE UNCHANGED <<info, origin, nenc>>
        /\ pc' = "fn2info"
        /\ UNCHANGED <<args, fn, held, sysvars>>

\* fn = info2fn(info): the call works on the caller's own mapping object
Info2fn ==
    LET r == info2fn(info, DefaultSecSep, vsep)
    IN  /\ origin # "none"
        /\ nenc < MaxEnc
        /\ err' = r.err
        /\ IF r.err = "none" THEN fn' = r.fn ELSE UNCHANGED fn
        /\ info' = r.info
        /\ nenc' = nenc + 1
        /\ pc' = "info2fn"
        /\ UNCHANGED <<args, origin, held, sysvars>>

Next ==
    \/ Fn2info
    \/ Info2fn

Spec == Init /\ [][Next]_vars

\* the caller passes a two-character value_sep, '--', to both functions
DoubleDash == << "-", "-" >>
InitSep ==
    /\ filename \in CharNames
    /\ vocab = modality
    /\ vsep = DoubleDash
    /\ held = << >>
    /\ info = << >>
    /\ origin = "none"
    /\ fn = << >>
    /\ pc = "start"
    /\ nenc = 0
    /\ err = "none"
    /\ SysIdle

SpecSep == InitSep /\ [][Next]_vars

\* the caller passes a path: a directory prefix, '/', a base name
InitPath ==
    LET DirPrefixes == { << >>, << "d" >>, << "d", ".", "a", "_", "b", "-", "c" >>, << "/", "x", "/", "y", ".", "z" >>, << ".", "." >>, << "s", "u", "b", "-", "0", "2", "_", "T", "2", "w", ".", "n", "i", "i" >> }
        BaseNames ==
            { << >>, << "a" >>, << ".", "a" >>, << "a", "_", "b" >>, << "a", "-", "b" >>, << "T", "1", "w" >>, << "s", "u", "b", "-", "0", "1", "_", "T", "1", "w", ".", "n", "i", "i", ".", "g", "z" >>, << "e", "x", "t", "-", "z", "_", "b", "o", "l", "d", ".", "n", "i", "i" >>,
              << "s", "u", "b", "-", "0", "1", "_", "s", "u", "b", "-", "0", "2" >>, << "d", "e", "s", "c", "-", "_", "x", ".", "y", ".", "z" >> }
    IN  /\ filename \in { p \o << "/" >> \o b : p \in DirPrefixes, b \in BaseNames }
        /\ vocab = modality
        /\ vsep = DefaultValueSep
        /\ held = << >>
        /\ info = << >>
        /\ origin = "none"
        /\ fn = << >>
        /\ pc = "start"
        /\ nenc = 0
        /\ err = "none"
        /\ SysIdle

SpecPath == InitPath /\ [][Next]_vars

\* Returned with one mapping object that every call fills again and returns
Returned_Shared(objs, d) == [ i \in 1..(Len(objs) + 1) |-> d ]

\* the caller's objects after one more fn2info call: `info = {}` makes a new
\* dict, which the call fills and returns; the dicts of the calls before it and
\* the list `modality` of the default argument are not written
Returned(objs, d) == Append(objs, d)

\* the caller decodes one name again and again and keeps every result
InitInd ==
    LET KeptNames == { << "s", "u", "b", "-", "0", "1", "_", "T", "1", "w", ".", "n", "i", "i", ".", "g", "z" >>, << "T", "1", "w" >>, << "a", "_", "b" >>, << "e", "x", "t", "-", "z", "_", "b", "o", "l", "d", ".", "n", "i", "i" >>, << "a", "-", "b", "_", "a", "-", "c", ".", "x" >>, << >> }
    IN  /\ filename \in KeptNames
        /\ vocab = modality
        /\ vsep = DefaultValueSep
        /\ held = << >>
        /\ info = << >>
        /\ origin = "none"
        /\ fn = << >>
        /\ pc = "start"
        /\ nenc = 0
        /\ err = "none"
        /\ SysIdle

\* results.append(fn2info(filename)); info is what the first call returned, as
\* it was returned
KeepFn2info ==
    LET r == fn2info(filename, DefaultSecSep, vsep, vocab)
    IN  /\ Len(held) < MaxHeld
        /\ r.err = "none"
        /\ held' = Returned(held, r.info)
        /\ IF origin = "none" THEN info' = r.info /\ origin' = "fn2info"
           ELSE UNCHANGED <<info, origin>>
        /\ pc' = "fn2info"
        /\ err' = r.err
        /\ UNCHANGED <<args, fn, nenc, sysvars>>

\* fn = info2fn(results[i]): the call works on the object it is given
Info2fnHeld ==
    \E i \in 1..Len(held) :
        LET r == info2fn(held[i], DefaultSecSep, vsep)
        IN  /\ held' = [ held EXCEPT ![i] = r.info ]
            /\ fn' = r.fn
            /\ pc' = "info2fn"
            /\ err' = r.err
            /\ UNCHANGED <<args, info, origin, nenc, sysvars>>

\* the caller changes a result: results[i]['sub'] = 'x', or results[i].clear()
ChangeHeld ==
    \E i \in 1..Len(held) :
        /\ \/ held' = [ held EXCEPT ![i] = DictSet(held[i], << "s", "u", "b" >>, << "x" >>) ]
           \/ held' = [ held EXCEPT ![i] = << >> ]
        /\ pc' = "caller"
        /\ UNCHANGED <<args, info, origin, fn, nenc, err, sysvars>>

SpecInd == InitInd /\ [][KeepFn2info \/ Info2fnHeld \/ ChangeHeld]_vars

\* the caller passes a one-character value_sep, with or without a meaning in
\* a regular expression, and names written with it
InitLit ==
    LET Seps == { "-", ".", "+", "|", "*" }
        SepNames(c) ==
            StringsUpTo({ "a", "_", c }, 3) \cup
            { << "T", "1", "w" >>, << "s", "u", "b" >> \o << c >> \o << "0", "1", "_", "T", "1", "w" >>, << "s", "u", "b" >> \o << c >> \o << "0", "1", "_", "a", ".", "n", "i", "i" >> }
    IN  /\ \E c \in Seps : vsep = << c >> /\ filename \in SepNames(c)
        /\ vocab = modality
        /\ held = << >>
        /\ info = << >>
        /\ origin = "none"
        /\ fn = << >>
        /\ pc = "start"
        /\ nenc = 0
        /\ err = "none"
        /\ SysIdle

SpecLit == InitLit /\ [][Next]_vars

-----------------------------------------------------------------------------
(* The codec at rest, while the functions below are called                 *)

CodecIdle ==
    /\ filename = << >>
    /\ vocab = modality
    /\ vsep = DefaultValueSep
    /\ held = << >>
    /\ info = << >>
    /\ origin = "none"
    /\ fn = << >>
    /\ pc = "start"
    /\ nenc = 0
    /\ err = "none"

codec == <<filename, vocab, vsep, held, info, origin, fn, pc, nenc, err>>

\* Python values: an argument that is a str or a list of str (s is the str,
\* l the list), None, and an int that may be None
PyStr(s) == [ t |-> "str", s |-> s, l |-> << >> ]
PyList(l) == [ t |-> "list", s |-> << >>, l |-> l ]
IsStr(x) == x.t = "str"
None == << >>
Some(n) == << n >>

-----------------------------------------------------------------------------
(* runcmd (utilities.py)                                                   *)

\* AsList with a str left as it is: iterating it gives its characters
AsList_Chars(cmd_list) ==
    IF IsStr(cmd_list) THEN [ i \in 1..Len(cmd_list.s) |-> << cmd_list.s[i] >> ]
    ELSE cmd_list.l

\* if isinstance(cmd_list, str): cmd_list = [cmd_list]
AsList(cmd_list) == IF IsStr(cmd_list) THEN << cmd_list.s >> ELSE cmd_list.l

\* runcmd(cmd_list, run_cmd) in a shell whose k-th command exits with exits[k]:
\* the pair returned and the commands started, in order
runcmd(cmd_list, run_cmd, exits) ==
    LET cmds == AsList(cmd_list)
    IN  IF run_cmd
        THEN [ cmd_list |-> cmds,
               status |-> [ i \in 1..Len(cmds) |-> Some(exits[i]) ],
               ran |-> cmds ]
        ELSE [ cmd_list |-> cmds,
               status |-> [ i \in 1..Len(cmds) |-> None ],
               ran |-> << >> ]

\* the exit statuses the shell gives
ExitCodes == { 0, 1 }

\* the commands a caller passes are one str or a list of them
InitRun ==
    LET CmdWords == { << "l", "s" >>, << "p", "w", "d" >>, << "c", "d", " ", "x" >> }
        CmdArgs ==
            { PyStr(c) : c \in CmdWords } \cup
            { PyList(l) : l \in UNION { [ 1..k -> CmdWords ] : k \in 0..MaxCmds } }
    IN  /\ CodecIdle
        /\ environ = << >>
        /\ disk = {}
        /\ shell \in [ ran : { << >> }, exits : [ 1..MaxCmds -> ExitCodes ] ]
        /\ call \in [ name : { "start" }, cmd_list : CmdArgs, run_cmd : BOOLEAN,
                       ret_cmd_list : { << >> }, ret_status : { << >> } ]

\* cmd_list, status = runcmd(cmd_list, run_cmd)
Runcmd ==
    LET r == runcmd(call.cmd_list, call.run_cmd, shell.exits)
    IN  /\ call.name = "start"
        /\ call' = [ call EXCEPT !.name = "runcmd",
                                  !.ret_cmd_list = r.cmd_list,
                                  !.ret_status = r.status ]
        /\ shell' = [ shell EXCEPT !.ran = shell.ran \o r.ran ]
        /\ UNCHANGED <<codec, environ, disk>>

SpecRun == InitRun /\ [][Runcmd]_vars

-----------------------------------------------------------------------------
(* setup and fslsetup (freesurfer/fs.py), fs_setup and fsl_setup           *)
(* (project.py).  A path is a sequence of its separators "/" and of the    *)
(* texts between them, $PATH a sequence of paths and ":".  An environment  *)
(* variable is None while it is unset.                                     *)

\* bool(x) of a str, and of what os.getenv returns
BoolStr(x) == x # << >>
BoolEnv(x) == x # None /\ x[1] # << >>
\* what an f-string writes for the value of os.getenv
FmtEnv(x) == IF x = None THEN << "None" >> ELSE x[1]
\* os.environ[name] = value
SetEnv(env, name, value) == [ env EXCEPT ![name] = Some(value) ]

\* os.path.join(a, b)
PathJoin(a, b) ==
    IF b # << >> /\ b[1] = "/" THEN b
    ELSE IF a = << >> \/ a[Len(a)] = "/" THEN a \o b
    ELSE a \o << "/" >> \o b

ApplicationsFreesurfer == << "/", "Applications", "/", "freesurfer" >>
UsrLocalFsl == << "/", "usr", "/", "local", "/", "fsl" >>

\* version(): `recon-all -version` is started through os.system, and once more
\* through subprocess.check_output when the first exit status was 0
version(exits) ==
    IF exits["recon-all"] # 0
    THEN [ ran |-> << << "recon-all" >> >>, err |-> "none" ]
    ELSE [ ran |-> << << "recon-all" >>, << "check_output" >> >>,
           err |-> IF exits["check_output"] # 0 THEN "CalledProcessError" ELSE "none" ]

\* fslsetup(fsl_dir)
fslsetup(fsl_dir, env, exits) ==
    IF BoolEnv(env["FSLDIR"])
    THEN [ environ |-> env, ran |-> << >>, err |-> "none" ]
    ELSE LET path == env["PATH"]
             env1 == SetEnv(env, "FSLDIR", fsl_dir)
             env2 == SetEnv(env1, "PATH", fsl_dir \o << "/", "bin", ":" >> \o FmtEnv(path))
             env3 == SetEnv(env2, "FSLOUTPUTTYPE", << "NIFTI_GZ" >>)
         IN  [ environ |-> env3,
               ran |-> << << "export" >>, << "sh" >> >>,
               err |-> IF exits["sh"] # 0 THEN "AssertionError" ELSE "none" ]

\* the four assignments to os.environ['PATH'], each written from the same
\* `path` read before the first of them
SetPath(env, fs_dir) ==
    LET path == env["PATH"]
        env1 == SetEnv(env, "PATH",
                       << "/", "usr", "/", "local", "/", "bin", ":" >> \o FmtEnv(path))
        env2 == SetEnv(env1, "PATH", fs_dir \o << "/", "tktools", ":" >> \o FmtEnv(path))
        env3 == SetEnv(env2, "PATH", fs_dir \o << "/", "fsfast", "/", "bin", ":" >> \o FmtEnv(path))
    IN  SetEnv(env3, "PATH", fs_dir \o << "/", "bin", ":" >> \o FmtEnv(path))

\* setup(fs_dir, fsl_dir, force) on the platform `system`.  The early return
\* is `if bool(os.getenv('FREESURFER_HOME')) and force`.  The path it works
\* with is the platform's default for an empty fs_dir (the Linux branch
\* assigns another name, fsPath), and a name without a separator is taken as a
\* version number.
setup(fs_dir0, fsl_dir, force, env, system, exits) ==
    IF BoolEnv(env["FREESURFER_HOME"]) /\ force
    THEN [ environ |-> env, ran |-> version(exits).ran, err |-> version(exits).err ]
    ELSE IF ~ BoolStr(fs_dir0) /\ system \notin { "Darwin", "Linux" }
    THEN [ environ |-> env, ran |-> << >>, err |-> "Exception" ]
    ELSE
      LET fs_dir1 == IF ~ BoolStr(fs_dir0) /\ system = "Darwin"
                     THEN ApplicationsFreesurfer ELSE fs_dir0
          fs_dir == IF \A i \in 1..Len(fs_dir1) : fs_dir1[i] # "/"
                    THEN ApplicationsFreesurfer \o << "/" >> \o fs_dir1
                    ELSE fs_dir1
          env1 == SetEnv(SetEnv(env, "FREESURFER_HOME", fs_dir),
                         "SUBJECTS_DIR", PathJoin(fs_dir, << "subjects" >>))
          source == << "source" >>
      IN  IF exits["source"] # 0
          THEN [ environ |-> SetEnv(env1, "FREESURFER_HOME", << >>),
                 ran |-> << source >>, err |-> "Exception" ]
          ELSE
            LET f == fslsetup(fsl_dir, env1, exits)
                env2 == SetPath(f.environ, fs_dir)
                env3 == SetEnv(env2, "FSFAST_HOME", PathJoin(fs_dir, << "fsfast" >>))
                env4 == SetEnv(env3, "FSF_OUTPUT_FORMAT", << "nii.gz" >>)
                env5 == SetEnv(env4, "MNI_DIR", PathJoin(fs_dir, << "mni" >>))
            IN  IF f.err # "none"
                THEN [ environ |-> f.environ, ran |-> << source >> \o f.ran, err |-> f.err ]
                ELSE [ environ |-> env5,
                       ran |-> << source >> \o f.ran \o version(exits).ran,
                       err |-> version(exits).err ]

\* the process before the call: the variables setup reads may be unset, empty
\* or set; the commands it starts succeed or fail
InitSetup ==
    LET SetupEnvNames ==
            { "FREESURFER_HOME", "SUBJECTS_DIR", "FSLDIR", "PATH", "FSLOUTPUTTYPE",
              "FSFAST_HOME", "FSF_OUTPUT_FORMAT", "MNI_DIR" }
        SetupCommands == { "source", "sh", "recon-all", "check_output" }
        FsDirArgs == { << >>, << "7.3" >>, << "/", "opt", "/", "fs" >> }
        SetupEnvs ==
            { [ n \in SetupEnvNames |->
                  IF n = "FREESURFER_HOME" THEN h
                  ELSE IF n = "FSLDIR" THEN l
                  ELSE IF n = "PATH" THEN p
                  ELSE None ] :
                h \in { None, Some(<< >>), Some(<< "/", "old", "/", "fs" >>) },
                l \in { None, Some(<< "/", "fsl" >>) },
                p \in { None, Some(<< "/", "bin" >>) } }
    IN  /\ CodecIdle
        /\ environ \in SetupEnvs
        /\ disk = {}
        /\ shell \in [ ran : { << >> }, exits : [ SetupCommands -> ExitCodes ] ]
        /\ call \in [ name : { "start" }, fs_dir : FsDirArgs, force : BOOLEAN,
                       system : { "Darwin", "Linux", "Windows" }, err : { "none" } ]

\* fs.setup(fs_dir, force=force)
Setup ==
    LET r == setup(call.fs_dir, UsrLocalFsl, call.force, environ, call.system, shell.exits)
    IN  /\ call.name = "start"
        /\ environ' = r.environ
        /\ shell' = [ shell EXCEPT !.ran = shell.ran \o r.ran ]
        /\ call' = [ call EXCEPT !.name = "setup", !.err = r.err ]
        /\ UNCHANGED <<codec, disk>>

\* project.fs_setup(fsdir, force=force): the same statements as fs.setup
FsSetup ==
    LET r == setup(call.fs_dir, UsrLocalFsl, call.force, environ, call.system, shell.exits)
    IN  /\ call.name = "start"
        /\ environ' = r.environ
        /\ shell' = [ shell EXCEPT !.ran = shell.ran \o r.ran ]
        /\ call' = [ call EXCEPT !.name = "fs_setup", !.err = r.err ]
        /\ UNCHANGED <<codec, disk>>

SpecSetup == InitSetup /\ [][Setup \/ FsSetup]_vars

-----------------------------------------------------------------------------
(* bidsdir, fpdir, mkignore, mktsv, mkreadme and scaffold (bids.py).  Here *)
(* a path and a file name are sequences of characters, the disk has a tree *)
(* of directories, each with the names os.listdir gives for it, and files, *)
(* each with its lines, None while the file does not exist.                *)

DirA == << "/", "A" >>
DirB == << "/", "B" >>
DirGone == << "/", "G" >>
CurDir == << "." >>
Derivatives == << "d", "e", "r", "i", "v", "a", "t", "i", "v", "e", "s" >>
Fmriprep == << "f", "m", "r", "i", "p", "r", "e", "p" >>
SubjWc == << "s", "u", "b", "-", "*" >>
BidsIgnore == << ".", "b", "i", "d", "s", "i", "g", "n", "o", "r", "e" >>
ParticipantsTsv == << "p", "a", "r", "t", "i", "c", "i", "p", "a", "n", "t", "s", ".", "t", "s", "v" >>
ReadmeMd == << "R", "E", "A", "D", "M", "E", ".", "m", "d" >>

\* os.path.join(a, b, c)
PathJoin3(a, b, c) == PathJoin(PathJoin(a, b), c)

\* the directory a path names: trailing separators do not count
RECURSIVE NormPath(_)
NormPath(path) ==
    IF Len(path) > 1 /\ path[Len(path)] = "/" THEN NormPath(SubSeq(path, 1, Len(path) - 1))
    ELSE path

\* the tree of directories: two BIDS folders, the first with two subject
\* folders, a file and fMRIPrep output, the second with two more folders; the
\* working directory; nothing at DirGone
Tree ==
    [ d \in { DirA, PathJoin(DirA, Derivatives), PathJoin3(DirA, Derivatives, Fmriprep),
              DirB, CurDir } |->
        IF d = DirA THEN << << "s", "u", "b", "-", "0", "1" >>, << "s", "u", "b", "-", "0", "2" >>, << "s", "u", "b", "-", "0", "3", ".", "t", "x", "t" >>, Derivatives >>
        ELSE IF d = PathJoin(DirA, Derivatives) THEN << Fmriprep >>
        ELSE IF d = PathJoin3(DirA, Derivatives, Fmriprep) THEN << << "s", "u", "b", "-", "0", "1" >>, << "s", "u", "b", "-", "0", "1", ".", "h", "t", "m", "l" >>, << "l", "o", "g", "s" >> >>
        ELSE IF d = DirB THEN << << "s", "u", "b", "x" >>, << "c", "o", "d", "e" >> >>
        ELSE << << "s", "u", "b", "-", "9" >> >> ]

ScaffoldNames == << BidsIgnore, ParticipantsTsv, ReadmeMd >>
FilePaths == { PathJoin(d, ScaffoldNames[i]) : d \in { DirA, DirB }, i \in 1..3 }

\* os.path.isdir(path), os.path.isfile(path)
IsDir(dsk, path) == NormPath(path) \in DOMAIN dsk.tree
IsFile(dsk, path) == path \in DOMAIN dsk.files /\ dsk.files[path] # None

\* os.listdir(path) of a directory: its names in the tree, then its files
ListDir(dsk, path) ==
    dsk.tree[NormPath(path)] \o
    SelectSeq(ScaffoldNames, LAMBDA n : IsFile(dsk, PathJoin(NormPath(path), n)))

\* [f for f in os.listdir(d) if re.match(subj_wc, f) and '.' not in f], with
\* re.match(subj_wc, f) for a wildcard that is a text followed by one character
\* and '*', as 'sub-*': the regular expression asks for the text and then for any
\* number, zero too, of that character
SubjList(dsk, path, subj_wc) ==
    LET ReMatch(wc, f) ==
            IF Len(wc) >= 2 /\ wc[Len(wc)] = "*"
            THEN StartsWith(f, SubSeq(wc, 1, Len(wc) - 2))
            ELSE StartsWith(f, wc)
    IN  SelectSeq(ListDir(dsk, path), LAMBDA f : ReMatch(subj_wc, f) /\ ~ StrIn(Dot, f))

\* BidsEnv with $BIDS_DIR written whatever set_dir is
BidsEnv_Always(env, bids_dir, set_dir) == SetEnv(env, "BIDS_DIR", bids_dir[1])

\* if set_dir: os.environ['BIDS_DIR'] = bids_dir
BidsEnv(env, bids_dir, set_dir) ==
    IF set_dir THEN SetEnv(env, "BIDS_DIR", bids_dir[1]) ELSE env

\* bidsdir(bids_dir, subj_wc, set_dir): bids_dir is None or a str; os.environ
\* takes no None, os.listdir(None) lists the working directory, and a path that
\* is no directory cannot be listed
bidsdir(bids_dir0, subj_wc, set_dir, env, dsk) ==
    LET bids_dir == IF ~ BoolEnv(bids_dir0) THEN env["BIDS_DIR"] ELSE bids_dir0
    IN  IF set_dir /\ bids_dir = None
        THEN [ environ |-> env, dir |-> None, list |-> << >>, err |-> "TypeError" ]
        ELSE IF bids_dir = None
        THEN [ environ |-> env, dir |-> None,
               list |-> SubjList(dsk, CurDir, subj_wc), err |-> "none" ]
        ELSE IF ~ IsDir(dsk, bids_dir[1])
        THEN [ environ |-> BidsEnv(env, bids_dir, set_dir), dir |-> None, list |-> << >>,
               err |-> "FileNotFoundError" ]
        ELSE [ environ |-> BidsEnv(env, bids_dir, set_dir), dir |-> bids_dir,
               list |-> SubjList(dsk, bids_dir[1], subj_wc), err |-> "none" ]

\* FpResolve with the caller's fp_dir kept when it is the BIDS folder
FpResolve_Kept(fp_dir0, legacy, env, dsk) ==
    IF ~ BoolEnv(fp_dir0)
    THEN [ dir |-> env["FMRIPREP_DIR"], err |-> "none" ]
    ELSE [ dir |-> fp_dir0, err |-> bidsdir(None, SubjWc, FALSE, env, dsk).err ]

\* the branches of fpdir that choose the directory: $FMRIPREP_DIR for no
\* fp_dir, <BIDS_DIR>/derivatives/<'fmriprep' or ''> for the BIDS folder
FpResolve(fp_dir0, legacy, env, dsk) ==
    IF ~ BoolEnv(fp_dir0)
    THEN [ dir |-> env["FMRIPREP_DIR"], err |-> "none" ]
    ELSE LET b == bidsdir(None, SubjWc, FALSE, env, dsk)
             tmpdir == IF legacy THEN Fmriprep ELSE << >>
         IN  IF b.err # "none" THEN [ dir |-> None, err |-> b.err ]
             ELSE IF fp_dir0 = b.dir
             THEN [ dir |-> Some(PathJoin3(b.dir[1], Derivatives, tmpdir)), err |-> "none" ]
             ELSE [ dir |-> fp_dir0, err |-> "none" ]

\* fpdir(fp_dir, subj_wc, set_dir, legacy)
fpdir(fp_dir0, subj_wc, set_dir, legacy, env, dsk) ==
    LET r == FpResolve(fp_dir0, legacy, env, dsk)
    IN  IF r.err # "none"
        THEN [ environ |-> env, dir |-> None, list |-> << >>, err |-> r.err ]
        ELSE IF r.dir = None
        THEN [ environ |-> env, dir |-> None, list |-> << >>, err |-> "TypeError" ]
        ELSE [ environ |-> IF set_dir THEN SetEnv(env, "FMRIPREP_DIR", r.dir[1]) ELSE env,
               dir |-> r.dir,
               list |-> IF IsDir(dsk, r.dir[1]) THEN SubjList(dsk, r.dir[1], subj_wc)
                        ELSE << >>,
               err |-> "none" ]

\* util.mkfile(content, fname): the file holds the lines of content
mkfile(dsk, content, fname) == [ dsk EXCEPT !.files[fname] = Some(content) ]

\* what mkignore, mktsv and mkreadme write into the BIDS folder
ResourceReadme == << << "#", " ", "R", "E", "A", "D", "M", "E" >> >>
mkignore(dsk, bids_dir) ==
    LET ignore_list == << << "t", "m", "p", "_", "d", "c", "m", "2", "b", "i", "d", "s", "/" >>, << "t", "m", "p", "/" >>, << "c", "o", "d", "e", "/" >> >>
    IN  mkfile(dsk, ignore_list, PathJoin(bids_dir, BidsIgnore))
mktsv(dsk, bids_dir) ==
    LET header == << "p", "a", "r", "t", "i", "c", "i", "p", "a", "n", "t", "_", "i", "d" >>
    IN  mkfile(dsk, << header >> \o SubjList(dsk, bids_dir, SubjWc),
               PathJoin(bids_dir, ParticipantsTsv))
mkreadme(dsk, bids_dir) == mkfile(dsk, ResourceReadme, PathJoin(bids_dir, ReadmeMd))

\* Missing with the files that exist taken as missing too
Missing_Always(dsk, bids_dir, name, force) == TRUE

\* the tests of scaffold: `not os.path.isfile(os.path.join(bids_dir, name)) or force`
Missing(dsk, bids_dir, name, force) ==
    ~ IsFile(dsk, PathJoin(bids_dir, name)) \/ force

\* scaffold(force): the disk after it and the files it wrote, in order
scaffold(force, env, dsk) ==
    LET b == bidsdir(None, SubjWc, FALSE, env, dsk)
    IN  IF b.err # "none" THEN [ disk |-> dsk, wrote |-> << >>, err |-> b.err ]
        ELSE IF b.dir = None THEN [ disk |-> dsk, wrote |-> << >>, err |-> "TypeError" ]
        ELSE
          LET bids_dir == b.dir[1]
              do1 == Missing(dsk, bids_dir, BidsIgnore, force)
              dsk1 == IF do1 THEN mkignore(dsk, bids_dir) ELSE dsk
              do2 == Missing(dsk1, bids_dir, ParticipantsTsv, force)
              dsk2 == IF do2 THEN mktsv(dsk1, bids_dir) ELSE dsk1
              do3 == Missing(dsk2, bids_dir, ReadmeMd, force)
              dsk3 == IF do3 THEN mkreadme(dsk2, bids_dir) ELSE dsk2
          IN  [ disk |-> dsk3,
                wrote |-> (IF do1 THEN << BidsIgnore >> ELSE << >>) \o
                          (IF do2 THEN << ParticipantsTsv >> ELSE << >>) \o
                          (IF do3 THEN << ReadmeMd >> ELSE << >>),
                err |-> "none" ]

\* the process before the first call: $BIDS_DIR and $FMRIPREP_DIR unset, or
\* naming a directory that exists or one that does not; each of the three
\* files of the first BIDS folder there, written by the user, or not
BidsEnvNames == { "BIDS_DIR", "FMRIPREP_DIR" }
UserContent == << << "m", "i", "n", "e" >> >>
DirArgs == { None, Some(DirA), Some(DirB), Some(DirGone) }
NoArgs ==
    [ name |-> "start", dir |-> None, set_dir |-> FALSE, legacy |-> FALSE, force |-> FALSE,
      ret_dir |-> None, ret_list |-> << >>, wrote |-> << >>, err |-> "none",
      last_set |-> None ]

InitBids ==
    LET InitFiles ==
            { [ f \in FilePaths |-> IF f \in present THEN Some(UserContent) ELSE None ] :
                present \in SUBSET { PathJoin(DirA, ScaffoldNames[i]) : i \in 1..3 } }
    IN  /\ CodecIdle
        /\ shell = NoShell
        /\ environ \in { [ n \in BidsEnvNames |-> IF n = "BIDS_DIR" THEN b ELSE None ] :
                            b \in { None, Some(DirA), Some(DirGone) } }
        /\ disk \in [ tree : { Tree }, files : InitFiles ]
        /\ call = NoArgs

\* bidsdir(bids_dir, set_dir=set_dir); last_set is the directory a later
\* bidsdir(set_dir=False) is to return: the one of the last
\* bidsdir(d, set_dir=True) that returned
Bidsdir ==
    \E bids_dir \in DirArgs, set_dir \in BOOLEAN :
        LET r == bidsdir(bids_dir, SubjWc, set_dir, environ, disk)
            last_set == IF set_dir /\ BoolEnv(bids_dir)
                        THEN (IF r.err = "none" THEN bids_dir ELSE None)
                        ELSE call.last_set
        IN  /\ environ' = r.environ
            /\ call' = [ NoArgs EXCEPT !.name = "bidsdir", !.dir = bids_dir, !.set_dir = set_dir,
                                       !.ret_dir = r.dir, !.ret_list = r.list, !.err = r.err,
                                       !.last_set = last_set ]
            /\ UNCHANGED <<codec, disk, shell>>

\* fpdir(fp_dir, set_dir=set_dir, legacy=legacy)
Fpdir ==
    \E fp_dir \in DirArgs, set_dir \in BOOLEAN, legacy \in BOOLEAN :
        LET r == fpdir(fp_dir, SubjWc, set_dir, legacy, environ, disk)
        IN  /\ environ' = r.environ
            /\ call' = [ NoArgs EXCEPT !.name = "fpdir", !.dir = fp_dir, !.set_dir = set_dir,
                                       !.legacy = legacy,
                                       !.ret_dir = r.dir, !.ret_list = r.list, !.err = r.err,
                                       !.last_set = call.last_set ]
            /\ UNCHANGED <<codec, disk, shell>>

\* scaffold(force=force)
Scaffold ==
    \E force \in BOOLEAN :
        LET r == scaffold(force, environ, disk)
        IN  /\ disk' = r.disk
            /\ call' = [ NoArgs EXCEPT !.name = "scaffold", !.force = force,
                                       !.wrote = r.wrote, !.err = r.err,
                                       !.last_set = call.last_set ]
            /\ UNCHANGED <<codec, environ, shell>>

\* calls of bidsdir and scaffold, in any order
SpecBids == InitBids /\ [][Bidsdir \/ Scaffold]_vars

\* calls of bidsdir and fpdir, in any order, on a disk without the three files
InitFp ==
    /\ CodecIdle
    /\ shell = NoShell
    /\ environ \in [ BidsEnvNames -> { None, Some(DirA), Some(DirGone) } ]
    /\ disk = [ tree |-> Tree, files |-> [ f \in FilePaths |-> None ] ]
    /\ call = NoArgs

SpecFp == InitFp /\ [][Bidsdir \/ Fpdir]_vars

-----------------------------------------------------------------------------
(* cmdpath (utilities.py) and dcm2bids (bids.py)                           *)

\* cmdpath(cmd) for one str: ' ', '(' and ')' get a backslash, '~' becomes
\* '$HOME'; no replacement writes a character that a later one replaces
RECURSIVE cmdpath(_)
cmdpath(cmd) ==
    IF cmd = << >> THEN << >>
    ELSE (IF Head(cmd) \in { " ", "(", ")" } THEN << "\\", Head(cmd) >>
          ELSE IF Head(cmd) = "~" THEN << "$", "H", "O", "M", "E" >>
          ELSE << Head(cmd) >>) \o cmdpath(Tail(cmd))

\* a parameter left at its default None
PyNone == [ t |-> "none", s |-> << >>, l |-> << >> ]

\* the body of the loop over the subjects: cmd is a str for a subject without
\* sub-folders or with run folders, and a list of str for session folders
SubjCmd(dsk, dcmdir, bids_dir, config, dsubj, bsubj, is_ses) ==
    LET
        \* the command of a subject without session folders, and of one session
        Dcm2bidsCmd(d, o, sub, c) ==
            << "d", "c", "m", "2", "b", "i", "d", "s", " ", "-", "d", " " >> \o d \o << " ", "-", "o", " " >> \o o \o << " ", "-", "p", " " >> \o sub \o << " ", "-", "c", " " >> \o c
                \o << " ", "-", "-", "f", "o", "r", "c", "e", "D", "c", "m", "2", "n", "i", "i", "x", " ", "-", "-", "c", "l", "o", "b", "b", "e", "r" >>
        Dcm2bidsSesCmd(d, o, sub, ses, c) ==
            << "d", "c", "m", "2", "b", "i", "d", "s", " ", "-", "d", " " >> \o d \o << " ", "-", "o", " " >> \o o \o << " ", "-", "p", " " >> \o sub \o << " ", "-", "s", " " >> \o FormatInt(ses)
                \o << " ", "-", "c", " " >> \o c \o << " ", "-", "-", "f", "o", "r", "c", "e", "D", "c", "m", "2", "n", "i", "i", "x", " ", "-", "-", "c", "l", "o", "b", "b", "e", "r" >>
        \* dcm_ses: the names in a subject's folder that are directories
        DcmSes(folder) ==
            SelectSeq(ListDir(dsk, folder), LAMBDA d : IsDir(dsk, PathJoin(folder, d)))
    IN  LET thisdabs == PathJoin(dcmdir, dsubj)
            dcm_ses == DcmSes(thisdabs)
            sessid == IF Len(dcm_ses) = 1 THEN << is_ses >> ELSE [ x \in 1..Len(dcm_ses) |-> x ]
        IN  IF dcm_ses = << >>
            THEN PyStr(Dcm2bidsCmd(cmdpath(thisdabs), cmdpath(bids_dir), bsubj, config))
            ELSE IF is_ses = 0
            THEN PyStr(Dcm2bidsCmd(
                     StrJoin(<< " " >>, [ x \in 1..Len(dcm_ses) |-> PathJoin(thisdabs, dcm_ses[x]) ]),
                     cmdpath(bids_dir), bsubj, config))
            ELSE PyList([ x \in 1..Len(dcm_ses) |->
                     Dcm2bidsSesCmd(cmdpath(PathJoin(thisdabs, dcm_ses[x])), cmdpath(bids_dir),
                                    bsubj, sessid[x], config) ])

\* list(chain(*cmdlist)): the elements of every element, in order; the
\* elements of a str are its characters
RECURSIVE Chain(_)
Chain(cmdlist) ==
    IF cmdlist = << >> THEN << >>
    ELSE (IF IsStr(Head(cmdlist))
          THEN [ i \in 1..Len(Head(cmdlist).s) |-> << Head(cmdlist).s[i] >> ]
          ELSE Head(cmdlist).l) \o Chain(Tail(cmdlist))

\* dcm2bids(dcm_subj, bids_subj, is_ses=is_ses, run_cmd=run_cmd) with the
\* default config; is_ses is 0 (False), 1 (True) or a session number
dcm2bids(dcm_subj, bids_subj, is_ses, run_cmd, env, dsk, exit) ==
    LET
        \* '%02d' % n
        Format02d(n) == IF n < 10 THEN << "0" >> \o FormatInt(n) ELSE FormatInt(n)
        \* the exit status the shell gives a command: the one of dcm2bids for a
        \* command that starts the program, 127 for a command it cannot find
        ExitOf(cmd) ==
            IF StartsWith(cmd, << "d", "c", "m", "2", "b", "i", "d", "s", " " >>) THEN exit ELSE 127
    IN  LET b == bidsdir(None, SubjWc, FALSE, env, dsk)
            fail(e) == [ cmd_list |-> << >>, status |-> << >>, ran |-> << >>, err |-> e ]
        IN  IF b.err # "none" THEN fail(b.err)
            ELSE IF b.dir = None THEN fail("TypeError")
            ELSE
              LET bids_dir == b.dir[1]
                  config == PathJoin3(bids_dir, << "c", "o", "d", "e" >>, << "b", "i", "d", "s", "_", "c", "o", "n", "v", "e", "r", "t", ".", "j", "s", "o", "n" >>)
                  dcmdir == PathJoin(bids_dir, << "s", "o", "u", "r", "c", "e", "d", "a", "t", "a" >>)
                  dsubj_list == IF IsStr(dcm_subj) THEN SubjList(dsk, dcmdir, dcm_subj.s)
                                ELSE dcm_subj.l
                  bids_list == IF IsStr(bids_subj)
                               THEN [ idx \in 1..Len(dsubj_list) |-> bids_subj.s \o Format02d(idx) ]
                               ELSE bids_subj.l
              IN  IF ~ IsFile(dsk, config) \/ ~ IsDir(dsk, dcmdir) THEN fail("AssertionError")
                  ELSE IF bids_subj = PyNone THEN fail("TypeError")
                  ELSE IF Len(dsubj_list) # Len(bids_list) THEN fail("AssertionError")
                  ELSE IF \E i \in 1..Len(dsubj_list) : ~ IsDir(dsk, PathJoin(dcmdir, dsubj_list[i]))
                  THEN fail("FileNotFoundError")
                  ELSE
                    LET cmdlist == [ i \in 1..Len(bids_list) |->
                                       SubjCmd(dsk, dcmdir, bids_dir, config,
                                               dsubj_list[i], bids_list[i], is_ses) ]
                        flat == Chain(cmdlist)
                        r == runcmd(PyList(flat), run_cmd,
                                    [ i \in 1..Len(flat) |-> ExitOf(flat[i]) ])
                    IN  [ cmd_list |-> r.cmd_list, status |-> r.status, ran |-> r.ran,
                          err |-> "none" ]

\* the disk of a conversion: the BIDS folder with code/bids_convert.json, or
\* without it, and two subject folders in sourcedata/, the first with the
\* sub-folders ses, the second with one sub-folder
SourceData == PathJoin(DirA, << "s", "o", "u", "r", "c", "e", "d", "a", "t", "a" >>)
FirstSubj == << "s", "1" >>
SecondSubj == << "s", " ", "2" >>

InitDcm ==
    LET
        ConfigFile == PathJoin3(DirA, << "c", "o", "d", "e" >>, << "b", "i", "d", "s", "_", "c", "o", "n", "v", "e", "r", "t", ".", "j", "s", "o", "n" >>)
        DcmDirs(ses) ==
            { DirA, SourceData, PathJoin(DirA, << "c", "o", "d", "e" >>), PathJoin(SourceData, FirstSubj),
              PathJoin(SourceData, SecondSubj), PathJoin3(SourceData, SecondSubj, << "r", "1" >>), CurDir }
            \cup { PathJoin3(SourceData, FirstSubj, ses[i]) : i \in 1..Len(ses) }
        DcmTree(ses) ==
            [ d \in DcmDirs(ses) |->
                IF d = DirA THEN << << "s", "o", "u", "r", "c", "e", "d", "a", "t", "a" >>, << "c", "o", "d", "e" >> >>
                ELSE IF d = SourceData THEN << FirstSubj, SecondSubj, << "n", "o", "t", "e", "s", ".", "t", "x", "t" >> >>
                ELSE IF d = PathJoin(SourceData, FirstSubj) THEN ses \o << << "i", ".", "d", "c", "m" >> >>
                ELSE IF d = PathJoin(SourceData, SecondSubj) THEN << << "r", "1" >> >>
                ELSE << >> ]
        SesFolders == { << >>, << << "r", "1" >> >>, << << "r", "1" >>, << "r", "2" >> >> }
        DcmDisks ==
            { [ tree |-> DcmTree(ses), files |-> [ f \in { ConfigFile } |-> c ] ] :
                ses \in SesFolders, c \in { None, Some(<< << "{", "}" >> >>) } }
        DcmSubjArgs ==
            { PyStr(<< "s" >>), PyList(<< FirstSubj >>), PyList(<< SecondSubj >>),
              PyList(<< FirstSubj, SecondSubj >>) }
        BidsSubjArgs == { PyNone, PyStr(<< "T" >>), PyList(<< << "0", "1" >> >>), PyList(<< << "0", "1" >>, << "0", "2" >> >>) }
        IsSesArgs == { 0, 1, 2 }
    IN  /\ CodecIdle
        /\ environ = [ n \in BidsEnvNames |-> IF n = "BIDS_DIR" THEN Some(DirA) ELSE None ]
        /\ disk \in DcmDisks
        /\ shell \in [ ran : { << >> }, exits : [ { "dcm2bids" } -> ExitCodes ] ]
        /\ call \in [ name : { "start" }, dcm_subj : DcmSubjArgs, bids_subj : BidsSubjArgs,
                       is_ses : IsSesArgs, run_cmd : BOOLEAN,
                       ret_cmd_list : { << >> }, ret_status : { << >> }, err : { "none" } ]

\* cmdlist, status = dcm2bids(dcm_subj, bids_subj, is_ses=is_ses, run_cmd=run_cmd)
Dcm2bids ==
    LET r == dcm2bids(call.dcm_subj, call.bids_subj, call.is_ses, call.run_cmd,
                      environ, disk, shell.exits["dcm2bids"])
    IN  /\ call.name = "start"
        /\ call' = [ call EXCEPT !.name = "dcm2bids", !.ret_cmd_list = r.cmd_list,
                                  !.ret_status = r.status, !.err = r.err ]
        /\ shell' = [ shell EXCEPT !.ran = shell.ran \o r.ran ]
        /\ UNCHANGED <<codec, environ, disk>>

SpecDcm == InitDcm /\ [][Dcm2bids]_vars

-----------------------------------------------------------------------------
(* cpevent (bids.py), with glob.glob and sorted                            *)

\* sorted(names)
Sorted(names) ==
    LET
        \* the characters of the names on the disk, in the order Python compares them
        CharOrder == << " ", "*", "-", ".", "/", "0", "1", "2", "3", "4", "5", "6", "7", "8", "9", "_", "a", "b", "c", "d", "e", "f", "g", "h", "i", "j", "k", "l", "m", "n", "o", "p", "q", "r", "s", "t", "u", "v", "w", "x", "y", "z" >>
        Ord(c) == CHOOSE i \in 1..Len(CharOrder) : CharOrder[i] = c
        \* a < b for two str
        RECURSIVE StrLess(_, _)
        StrLess(a, b) ==
            IF b = << >> THEN FALSE
            ELSE IF a = << >> THEN TRUE
            ELSE IF Head(a) # Head(b) THEN Ord(Head(a)) < Ord(Head(b))
            ELSE StrLess(Tail(a), Tail(b))
    IN  SortSeq(names, StrLess)

\* s.replace(old, new) for a non-empty old
RECURSIVE StrReplace(_, _, _)
StrReplace(str, old, new) ==
    IF str = << >> THEN << >>
    ELSE IF StartsWith(str, old) THEN new \o StrReplace(SubSeq(str, Len(old) + 1, Len(str)), old, new)
    ELSE << Head(str) >> \o StrReplace(Tail(str), old, new)

\* glob.glob(pattern): the names of the pattern's directory that match its last
\* part, each with the directory part in front; a pattern without a directory
\* part is read in the working directory
Glob(dsk, pattern) ==
    LET
        \* the directory part and the last part of a pattern or path
        LastSlash(path) ==
            LET hits == { i \in 1..Len(path) : path[i] = "/" }
            IN  IF hits = {} THEN 0 ELSE CHOOSE i \in hits : \A j \in hits : j <= i
        \* fnmatch of a name against a pattern with at most one '*'; a name that
        \* begins with '.' is matched only by a pattern that does so
        GlobMatch(pat, name) ==
            LET star == StrFind(<< "*" >>, pat)
            IN  IF star = -1 THEN pat = name
                ELSE /\ Len(name) >= Len(pat) - 1
                     /\ SubSeq(name, 1, star) = SubSeq(pat, 1, star)
                     /\ SubSeq(name, Len(name) - (Len(pat) - star - 1) + 1, Len(name))
                          = SubSeq(pat, star + 2, Len(pat))
                     /\ (name # << >> /\ name[1] = ".") => (pat[1] = ".")
    IN  LET cut == LastSlash(pattern)
            dir == IF cut = 0 THEN CurDir ELSE SubSeq(pattern, 1, cut - 1)
            base == SubSeq(pattern, cut + 1, Len(pattern))
            names == IF IsDir(dsk, dir)
                     THEN SelectSeq(ListDir(dsk, dir), LAMBDA n : GlobMatch(base, n))
                     ELSE << >>
        IN  [ i \in 1..Len(names) |-> SubSeq(pattern, 1, cut) \o names[i] ]

\* the parameter ses when it is a str (t is "none" for None, "int" for an int)
SesStr(s) == [ t |-> "str", s |-> s, n |-> 0 ]

\* the two statements under `# set session info`: an int becomes a str; then
\* both operands of `&` are evaluated, and None has no startswith
SetSes(ses0) ==
    LET
        SesPrefix == << "s", "e", "s", "-" >>
    IN  LET ses == IF ses0.t = "int" THEN SesStr(FormatInt(ses0.n)) ELSE ses0
        IN  IF ses.t = "none" THEN [ ses |-> ses, err |-> "AttributeError" ]
            ELSE IF ~ StartsWith(ses.s, SesPrefix)
            THEN [ ses |-> SesStr(SesPrefix \o ses.s), err |-> "none" ]
            ELSE [ ses |-> ses, err |-> "none" ]

Func == << "f", "u", "n", "c" >>

\* the loop `for iwd in range(nwd)`: the result of its first n passes
RECURSIVE CpLoop(_, _, _, _, _, _, _)
CpLoop(dsk, bids_dir, subj_code, ses, event_wc, run_wc, n) ==
    LET
        BoldSuffix == << "_", "b", "o", "l", "d", ".", "n", "i", "i", ".", "g", "z" >>
        EventsSuffix == << "_", "e", "v", "e", "n", "t", "s", ".", "t", "s", "v" >>
        \* one pass of the loop `for iwd in range(nwd)`, from the result acc of the
        \* passes before it: the disk, the two lists, the folder looked in, the error
        CpPass(acc, event, run) ==
            LET src == Sorted(Glob(acc.disk, event))
                func_dir == IF ses.t = "none" THEN None
                            ELSE Some(PathJoin(PathJoin3(bids_dir, subj_code, ses.s), Func))
                runs == Sorted(Glob(acc.disk, PathJoin(func_dir[1], run)))
                dst == [ i \in 1..Len(runs) |-> StrReplace(runs[i], BoldSuffix, EventsSuffix) ]
                \* the copies made before dst[i] runs out of range
                done == { i \in 1..Len(src) : i <= Len(dst) }
                copied == [ acc.disk EXCEPT !.files =
                              [ f \in DOMAIN acc.disk.files |->
                                  IF \E i \in done : dst[i] = f
                                  THEN acc.disk.files[
                                         src[CHOOSE i \in done :
                                               dst[i] = f /\ \A j \in done : dst[j] = f => j <= i]]
                                  ELSE acc.disk.files[f] ] ]
            IN  IF acc.err # "none" THEN acc
                ELSE IF src = << >> THEN [ acc EXCEPT !.err = "AssertionError" ]
                ELSE IF func_dir = None THEN [ acc EXCEPT !.err = "TypeError" ]
                ELSE IF runs = << >>
                THEN [ acc EXCEPT !.func_dir = func_dir, !.err = "AssertionError" ]
                ELSE IF Len(src) > Len(dst)
                THEN [ acc EXCEPT !.disk = copied, !.func_dir = func_dir, !.err = "IndexError" ]
                ELSE [ disk |-> copied, src |-> acc.src \o src, dst |-> acc.dst \o dst,
                       func_dir |-> func_dir, err |-> "none", stage |-> acc.stage ]
    IN  IF n = 0
        THEN [ disk |-> dsk, src |-> << >>, dst |-> << >>, func_dir |-> None, err |-> "none",
               stage |-> "files" ]
        ELSE CpPass(CpLoop(dsk, bids_dir, subj_code, ses, event_wc, run_wc, n - 1),
                    event_wc[n], run_wc[n])

\* cpevent(subj_code, event_wc, ses=ses) with the default run_wc; stage tells
\* which part of the function raised: "inputs", "session" or "files"
cpevent(subj_code, event_wc0, ses0, env, dsk) ==
    LET
        RunWc == << "*", "_", "b", "o", "l", "d", ".", "n", "i", "i", ".", "g", "z" >>
    IN  LET b == bidsdir(None, SubjWc, FALSE, env, dsk)
            fail(e, st) == [ disk |-> dsk, src |-> << >>, dst |-> << >>, func_dir |-> None,
                             err |-> e, stage |-> st ]
            event_wc == AsList(event_wc0)
            run_wc == AsList(PyStr(RunWc))
            s == SetSes(ses0)
        IN  IF b.err # "none" THEN fail(b.err, "inputs")
            ELSE IF \A i \in 1..Len(b.list) : b.list[i] # subj_code
            THEN fail("AssertionError", "inputs")
            ELSE IF event_wc0 = PyNone THEN fail("TypeError", "inputs")
            ELSE IF Len(event_wc) # Len(run_wc) THEN fail("AssertionError", "inputs")
            ELSE IF s.err # "none" THEN fail(s.err, "session")
            ELSE CpLoop(dsk, b.dir[1], subj_code, s.ses, event_wc, run_wc, Len(event_wc))

\* the disk of a copy: event files in the working directory, in the order
\* os.listdir has them; a subject with runs in func/ and in ses-1/func/, and a
\* subject without a folder func/
SubjOne == << "s", "u", "b", "-", "0", "1" >>
SubjTwo == << "s", "u", "b", "-", "0", "2" >>

InitCp ==
    LET
        EventFiles == { << >>, << << "e", "1", ".", "t", "s", "v" >> >>, << << "e", "2", ".", "t", "s", "v" >>, << "e", "1", ".", "t", "s", "v" >> >> }
        CpTree(events) ==
            [ d \in { CurDir, DirA, PathJoin(DirA, SubjOne), PathJoin(DirA, SubjTwo),
                      PathJoin3(DirA, SubjOne, Func), PathJoin3(DirA, SubjOne, << "s", "e", "s", "-", "1" >>),
                      PathJoin(PathJoin3(DirA, SubjOne, << "s", "e", "s", "-", "1" >>), Func) } |->
                IF d = CurDir THEN events \o << << "n", "o", "t", "e", "s", ".", "m", "d" >> >>
                ELSE IF d = DirA THEN << SubjOne, SubjTwo >>
                ELSE IF d = PathJoin(DirA, SubjOne) THEN << Func, << "s", "e", "s", "-", "1" >> >>
                ELSE IF d = PathJoin3(DirA, SubjOne, Func)
                THEN << << "r", "2", "_", "b", "o", "l", "d", ".", "n", "i", "i", ".", "g", "z" >>, << "r", "1", "_", "b", "o", "l", "d", ".", "n", "i", "i", ".", "g", "z" >>, << "r", "1", "_", "s", "b", "r", "e", "f", ".", "n", "i", "i", ".", "g", "z" >> >>
                ELSE IF d = PathJoin3(DirA, SubjOne, << "s", "e", "s", "-", "1" >>) THEN << Func >>
                ELSE IF d = PathJoin(PathJoin3(DirA, SubjOne, << "s", "e", "s", "-", "1" >>), Func)
                THEN << << "r", "1", "_", "b", "o", "l", "d", ".", "n", "i", "i", ".", "g", "z" >> >>
                ELSE << >> ]
        CpFiles(events) ==
            [ f \in { << "e", "1", ".", "t", "s", "v" >>, << "e", "2", ".", "t", "s", "v" >>,
                      PathJoin(PathJoin3(DirA, SubjOne, Func), << "r", "1", "_", "e", "v", "e", "n", "t", "s", ".", "t", "s", "v" >>),
                      PathJoin(PathJoin3(DirA, SubjOne, Func), << "r", "2", "_", "e", "v", "e", "n", "t", "s", ".", "t", "s", "v" >>),
                      PathJoin(PathJoin(PathJoin3(DirA, SubjOne, << "s", "e", "s", "-", "1" >>), Func), << "r", "1", "_", "e", "v", "e", "n", "t", "s", ".", "t", "s", "v" >>) } |->
                IF \E i \in 1..Len(events) : events[i] = f THEN Some(<< f >>) ELSE None ]
        CpDisks == { [ tree |-> CpTree(ev), files |-> CpFiles(ev) ] : ev \in EventFiles }
        EventWcArgs ==
            { PyNone, PyStr(<< "e", "*", ".", "t", "s", "v" >>), PyStr(<< "e", "1", ".", "t", "s", "v" >>), PyList(<< << "e", "1", ".", "t", "s", "v" >>, << "e", "2", ".", "t", "s", "v" >> >>) }
        \* the parameter ses: None, an int or a str
        SesNone == [ t |-> "none", s |-> << >>, n |-> 0 ]
        SesInt(n) == [ t |-> "int", s |-> << >>, n |-> n ]
        SesArgs == { SesNone, SesInt(1), SesStr(<< "1" >>), SesStr(<< "s", "e", "s", "-", "1" >>), SesStr(<< "s", "e", "s", "-", "2" >>) }
    IN  /\ CodecIdle
        /\ shell = NoShell
        /\ environ = [ n \in BidsEnvNames |-> IF n = "BIDS_DIR" THEN Some(DirA) ELSE None ]
        /\ disk \in CpDisks
        /\ call \in [ name : { "start" }, subj_code : { SubjOne, SubjTwo },
                       event_wc : EventWcArgs, ses : SesArgs,
                       ret_src : { << >> }, ret_dst : { << >> }, func_dir : { None },
                       err : { "none" }, stage : { "none" } ]

\* srclist, dstlist = cpevent(subj_code, event_wc, ses=ses)
Cpevent ==
    LET r == cpevent(call.subj_code, call.event_wc, call.ses, environ, disk)
    IN  /\ call.name = "start"
        /\ disk' = r.disk
        /\ call' = [ call EXCEPT !.name = "cpevent", !.ret_src = r.src, !.ret_dst = r.dst,
                                  !.func_dir = r.func_dir, !.err = r.err, !.stage = r.stage ]
        /\ UNCHANGED <<codec, environ, shell>>

SpecCp == InitCp /\ [][Cpevent]_vars

-----------------------------------------------------------------------------
(* totemplate (freesurfer/util.py)                                         *)

\* totemplate(ana_list, patterns, default_str): for every name the patterns it
\* contains, '' for the others, joined; default_str is wrapped in a list and
\* not read again
totemplate(ana_list0, patterns, default_str) ==
    LET ana_list == AsList(ana_list0)
        n_pattern == Len(patterns)
        tmp_template ==
            [ k \in 1..(Len(ana_list) * n_pattern) |->
                LET x == ana_list[((k - 1) \div n_pattern) + 1]
                    y == patterns[((k - 1) % n_pattern) + 1]
                IN  IF StrIn(y, x) THEN y ELSE << >> ]
        ks == { k \in 0..(Len(tmp_template) - 1) : k % n_pattern = 0 }
    IN  [ i \in 1..Cardinality(ks) |->
            StrJoin(<< >>, SubSeq(tmp_template, (i - 1) * n_pattern + 1, i * n_pattern)) ]

\* the analysis names a caller passes, one str or a list of them, and the
\* patterns: the default ones, one pattern, none
InitTpl ==
    LET AnaNames == { << "a", ".", "f", "s", "a", "v", "e", "r", "a", "g", "e" >>, << "a", ".", "s", "e", "l", "f" >>, << "a", ".", "l", "h" >>, << "s", "e", "l", "f", ".", "f", "s", "a", "v", "e", "r", "a", "g", "e" >>, << "f", "s" >> }
        AnaArgs ==
            { PyStr(a) : a \in AnaNames } \cup
            { PyList(l) : l \in UNION { [ 1..k -> AnaNames ] : k \in 0..2 } }
    IN  /\ CodecIdle
        /\ environ = << >>
        /\ disk = {}
        /\ shell = NoShell
        /\ call \in [ name : { "start" }, ana_list : AnaArgs,
                       patterns : { << << "f", "s", "a", "v", "e", "r", "a", "g", "e" >>, << "s", "e", "l", "f" >> >>, << << "s", "e", "l", "f" >> >>, << >> },
                       default_str : { << "u", "n", "k", "n", "o", "w", "n" >>, << "n", "o", "n", "e" >> },
                       ret : { << >> } ]

\* templates = totemplate(ana_list, patterns, default_str)
Totemplate ==
    /\ call.name = "start"
    /\ call' = [ call EXCEPT !.name = "totemplate",
                              !.ret = totemplate(call.ana_list, call.patterns, call.default_str) ]
    /\ UNCHANGED <<codec, environ, disk, shell>>

SpecTpl == InitTpl /\ [][Totemplate]_vars


-----------------------------------------------------------------------------
(* listfile and fixfmap (bids.py)                                          *)

Fmap == << "f", "m", "a", "p" >>

\* listfile(file_wc, subj_list, modality, isfmriprep=False): the files of the
\* folder modality_dir of every subject, or of every session folder of a
\* subject that has no such folder; os.path.join takes no None and a subject
\* folder that does not exist cannot be listed
listfile(file_wc, subj_list, modality_dir, env, dsk) ==
    LET \* the files of one subject whose folder holds the names the_subj_dir
        thefile(subj_dir, the_subj_dir) ==
            IF \E i \in 1..Len(the_subj_dir) : the_subj_dir[i] = modality_dir
            THEN Glob(dsk, PathJoin3(subj_dir, modality_dir, file_wc))
            ELSE Chain([ i \in 1..Len(the_subj_dir) |->
                    PyList(Glob(dsk, PathJoin(PathJoin3(subj_dir, the_subj_dir[i], modality_dir),
                                              file_wc))) ])
        \* the loop over subj_list, from what bidsdir returned
        filelist(b, subjs) ==
            IF b.err # "none" THEN [ list |-> << >>, err |-> b.err ]
            ELSE IF subjs = << >> THEN [ list |-> << >>, err |-> "none" ]
            ELSE IF b.dir = None THEN [ list |-> << >>, err |-> "TypeError" ]
            ELSE IF \E i \in 1..Len(subjs) : ~ IsDir(dsk, PathJoin(b.dir[1], subjs[i]))
            THEN [ list |-> << >>, err |-> "FileNotFoundError" ]
            ELSE [ list |-> Chain([ i \in 1..Len(subjs) |->
                              PyList(thefile(PathJoin(b.dir[1], subjs[i]),
                                             ListDir(dsk, PathJoin(b.dir[1], subjs[i])))) ]),
                   err |-> "none" ]
        \* with a list as subj_list, bidsdir's list is not used
        given(b) == filelist(b, IF IsStr(subj_list) THEN b.list ELSE subj_list.l)
    IN  given(bidsdir(None, IF IsStr(subj_list) THEN subj_list.s ELSE SubjWc, FALSE, env, dsk))

\* the loop `for ifmap in fmapjosns`: the result of its first n passes.  seen
\* holds, for every pass begun, the json file, the files glob.glob matched for
\* it and the content read from it; fmaps is the list the loop goes through
RECURSIVE FixLoop(_, _, _, _)
FixLoop(dsk, fmapjosns, intend_list, n) ==
    LET
        KeySes == << "s", "e", "s" >>
        \* os.path.dirname(path)
        Dirname(path) == SubSeq(path, 1, Len(path) - Len(Basename(path)) - 1)
        \* a pass that raises
        raise(acc, ifmap, intendfiles, e) ==
            [ acc EXCEPT !.err = e,
                         !.seen = Append(acc.seen, [ fmap |-> ifmap, intendfiles |-> intendfiles,
                                                     val |-> acc.disk.files[ifmap][1] ]) ]
        \* json.load, val['IntendedFor'] = allintend, json.dump
        save(acc, ifmap, intendfiles, allintend) ==
            [ acc EXCEPT !.disk.files[ifmap] =
                             Some(DictSet(acc.disk.files[ifmap][1], << "I", "n", "t", "e", "n", "d", "e", "d", "F", "o", "r" >>, PyList(allintend))),
                         !.seen = Append(acc.seen, [ fmap |-> ifmap, intendfiles |-> intendfiles,
                                                     val |-> acc.disk.files[ifmap][1] ]) ]
        \* the three branches on ses: `if ses is None` is never taken, ses is a list
        branch(acc, ifmap, intendfiles, ses) ==
            IF Cardinality({ ses[i] : i \in 1..Len(ses) }) = 1
            THEN save(acc, ifmap, intendfiles,
                      [ i \in 1..Len(intendfiles) |->
                          PathJoin3(<< "s", "e", "s", "-" >> \o ses[1], Func, Basename(intendfiles[i])) ])
            ELSE raise(acc, ifmap, intendfiles, "Exception")
        \* ses = [x['ses'] for x in infos if 'ses' in x.keys()]
        sesof(withses) == [ i \in 1..Len(withses) |-> DictGet(withses[i].info, KeySes) ]
        \* infos = [fn2info(x) for x in intendfiles]
        check(acc, ifmap, intendfiles, infos) ==
            IF \E i \in 1..Len(infos) : infos[i].err # "none"
            THEN raise(acc, ifmap, intendfiles, "re.error")
            ELSE branch(acc, ifmap, intendfiles,
                        sesof(SelectSeq(infos, LAMBDA x : DictHas(x.info, KeySes))))
        matched(acc, ifmap, intendfiles) ==
            check(acc, ifmap, intendfiles,
                  [ i \in 1..Len(intendfiles) |->
                      fn2info(intendfiles[i], DefaultSecSep, DefaultValueSep, modality) ])
        \* glob.glob(os.path.join(os.path.dirname(ifmap), '..', 'func', intend_list)):
        \* ifmap was found in its folder, so '<folder>/..' is the folder around it
        globbed(acc, ifmap, found) ==
            matched(acc, ifmap,
                    [ i \in 1..Len(found) |->
                        PathJoin(PathJoin3(Dirname(ifmap), << ".", "." >>, Func), Basename(found[i])) ])
        \* one pass of the loop, from the result acc of the passes before it
        FixPass(acc, ifmap) ==
            IF acc.err # "none" THEN acc
            ELSE IF ~ IsStr(intend_list) THEN save(acc, ifmap, << >>, intend_list.l)
            ELSE globbed(acc, ifmap,
                         Glob(acc.disk, PathJoin3(Dirname(Dirname(ifmap)), Func, intend_list.s)))
    IN  IF n = 0 THEN [ disk |-> dsk, err |-> "none", seen |-> << >>, fmaps |-> fmapjosns ]
        ELSE FixPass(FixLoop(dsk, fmapjosns, intend_list, n - 1), fmapjosns[n])

\* fixfmap(intend_list, subj_list, fmap_wc)
fixfmap(intend_list, subj_list, fmap_wc0, env, dsk) ==
    LET Json == << ".", "j", "s", "o", "n" >>
        loop(fmapjosns) ==
            IF fmapjosns.err # "none"
            THEN [ disk |-> dsk, err |-> fmapjosns.err, seen |-> << >>, fmaps |-> << >> ]
            ELSE FixLoop(dsk, fmapjosns.list, intend_list, Len(fmapjosns.list))
    IN  loop(listfile(IF Len(fmap_wc0) >= Len(Json)
                         /\ SubSeq(fmap_wc0, Len(fmap_wc0) - Len(Json) + 1, Len(fmap_wc0)) = Json
                      THEN fmap_wc0 ELSE fmap_wc0 \o Json,
                      subj_list, Fmap, env, dsk))

\* the disk of fixfmap: a first subject with fmap/ and, in most cases, func/,
\* whose runs carry no session, one session or two; a second subject with one
\* session folder; json files with and without a field IntendedFor
InitFix ==
    LET
        SesOne == << "s", "e", "s", "-", "1" >>
        FuncOne == PathJoin3(DirA, SubjOne, Func)
        FmapOne == PathJoin3(DirA, SubjOne, Fmap)
        SesTwo == PathJoin3(DirA, SubjTwo, SesOne)
        \* the content of sub-01/func, None when there is no such folder
        FuncFiles ==
            { None, Some(<< >>),
              Some(<< << "r", "1", "_", "b", "o", "l", "d", ".", "n", "i", "i", ".", "g", "z" >> >>),
              Some(<< << "r", "1", "_", "b", "o", "l", "d", ".", "n", "i", "i", ".", "g", "z" >>, << "r", "2", "_", "b", "o", "l", "d", ".", "n", "i", "i", ".", "g", "z" >>, << "r", "1", "_", "s", "b", "r", "e", "f", ".", "n", "i", "i", ".", "g", "z" >> >>),
              Some(<< << "s", "e", "s", "-", "1", "_", "r", "1", "_", "b", "o", "l", "d", ".", "n", "i", "i", ".", "g", "z" >> >>),
              Some(<< << "s", "e", "s", "-", "1", "_", "r", "1", "_", "b", "o", "l", "d", ".", "n", "i", "i", ".", "g", "z" >>, << "s", "e", "s", "-", "1", "_", "r", "2", "_", "b", "o", "l", "d", ".", "n", "i", "i", ".", "g", "z" >> >>),
              Some(<< << "s", "e", "s", "-", "1", "_", "r", "1", "_", "b", "o", "l", "d", ".", "n", "i", "i", ".", "g", "z" >>, << "s", "e", "s", "-", "2", "_", "r", "1", "_", "b", "o", "l", "d", ".", "n", "i", "i", ".", "g", "z" >> >>),
              Some(<< << "r", "1", "_", "b", "o", "l", "d", ".", "n", "i", "i", ".", "g", "z" >>, << "s", "e", "s", "-", "1", "_", "r", "1", "_", "b", "o", "l", "d", ".", "n", "i", "i", ".", "g", "z" >> >>),
              Some(<< << "s", "e", "s", "-", "1", "_", "r", "1", "_", "b", "o", "l", "d", ".", "n", "i", "i", ".", "g", "z" >>, << "s", "e", "s", "-", "2", "_", "r", "1", "_", "s", "b", "r", "e", "f", ".", "n", "i", "i", ".", "g", "z" >> >>) }
        FixTree(funcs) ==
            [ d \in { CurDir, DirA, PathJoin(DirA, SubjOne), FmapOne, PathJoin(DirA, SubjTwo), SesTwo,
                      PathJoin(SesTwo, Fmap), PathJoin(SesTwo, Func) }
                    \cup (IF funcs = None THEN {} ELSE { FuncOne }) |->
                IF d = DirA THEN << SubjOne, SubjTwo >>
                ELSE IF d = PathJoin(DirA, SubjOne)
                THEN (IF funcs = None THEN << Fmap >> ELSE << Fmap, Func >>)
                ELSE IF d = FmapOne THEN << << "a", "_", "e", "p", "i", ".", "j", "s", "o", "n" >>, << "b", ".", "j", "s", "o", "n" >>, << "b", ".", "n", "i", "i", ".", "g", "z" >> >>
                ELSE IF d = FuncOne THEN funcs[1]
                ELSE IF d = PathJoin(DirA, SubjTwo) THEN << SesOne >>
                ELSE IF d = SesTwo THEN << Fmap, Func >>
                ELSE IF d = PathJoin(SesTwo, Fmap) THEN << << "c", "_", "e", "p", "i", ".", "j", "s", "o", "n" >> >>
                ELSE IF d = PathJoin(SesTwo, Func)
                THEN << << "s", "e", "s", "-", "1", "_", "r", "1", "_", "b", "o", "l", "d", ".", "n", "i", "i", ".", "g", "z" >>, << "s", "e", "s", "-", "1", "_", "r", "1", "_", "b", "o", "l", "d", ".", "j", "s", "o", "n" >> >>
                ELSE << >> ]
        FixFiles ==
            [ f \in { PathJoin(FmapOne, << "a", "_", "e", "p", "i", ".", "j", "s", "o", "n" >>), PathJoin(FmapOne, << "b", ".", "j", "s", "o", "n" >>),
                      PathJoin(PathJoin(SesTwo, Fmap), << "c", "_", "e", "p", "i", ".", "j", "s", "o", "n" >>) } |->
                IF f = PathJoin(FmapOne, << "a", "_", "e", "p", "i", ".", "j", "s", "o", "n" >>)
                THEN Some(<< << << "E", "c", "h", "o", "T", "i", "m", "e" >>, PyStr(<< "1" >>) >>, << << "I", "n", "t", "e", "n", "d", "e", "d", "F", "o", "r" >>, PyStr(<< "o", "l", "d" >>) >>,
                             << << "U", "n", "i", "t", "s" >>, PyStr(<< "H", "z" >>) >> >>)
                ELSE IF f = PathJoin(FmapOne, << "b", ".", "j", "s", "o", "n" >>)
                THEN Some(<< << << "E", "c", "h", "o", "T", "i", "m", "e" >>, PyStr(<< "2" >>) >> >>)
                ELSE Some(<< >>) ]
        IntendArgs ==
            { PyStr(<< "*", "_", "b", "o", "l", "d", ".", "n", "i", "i", ".", "g", "z" >>), PyStr(<< "s", "e", "s", "-", "1", "_", "*" >>), PyStr(<< "*", "r", "1", "_", "b", "o", "l", "d", ".", "n", "i", "i", ".", "g", "z" >>),
              PyList(<< >>), PyList(<< << "f", "u", "n", "c", "/", "x", "_", "b", "o", "l", "d", ".", "n", "i", "i", ".", "g", "z" >> >>) }
        SubjArgs ==
            { PyStr(SubjWc), PyList(<< SubjOne >>), PyList(<< SubjTwo >>), PyList(<< SubjTwo, SubjOne >>),
              PyList(<< << "s", "u", "b", "-", "0", "3" >> >>) }
    IN  /\ CodecIdle
        /\ shell = NoShell
        /\ environ = [ n \in BidsEnvNames |-> IF n = "BIDS_DIR" THEN Some(DirA) ELSE None ]
        /\ disk \in { [ tree |-> FixTree(funcs), files |-> FixFiles ] : funcs \in FuncFiles }
        /\ call \in [ name : { "start" }, intend_list : IntendArgs, subj_list : SubjArgs,
                       fmap_wc : { << "*", ".", "j", "s", "o", "n" >>, << "*", "_", "e", "p", "i" >> }, fmaps : { << >> }, seen : { << >> },
                       err : { "none" } ]

\* fixfmap(intend_list, subj_list, fmap_wc)
Fixfmap ==
    LET r == fixfmap(call.intend_list, call.subj_list, call.fmap_wc, environ, disk)
    IN  /\ call.name = "start"
        /\ disk' = r.disk
        /\ call' = [ call EXCEPT !.name = "fixfmap", !.fmaps = r.fmaps, !.seen = r.seen,
                                  !.err = r.err ]
        /\ UNCHANGED <<codec, environ, shell>>

SpecFix == InitFix /\ [][Fixfmap]_vars

-----------------------------------------------------------------------------
(* The filename format, stated on the text of a name: the stem is the text *)
(* before the first '.', its sections are the texts between the '_', and a *)
(* section with a '-' has the key before and the value after its first '-'.*)
(* These definitions read the characters directly and use none of the      *)
(* operators that model fn2info and info2fn.                               *)

NameDotAt(f) ==
    IF \E i \in 1..Len(f) : f[i] = "."
    THEN CHOOSE i \in 1..Len(f) : f[i] = "." /\ \A j \in 1..(i - 1) : f[j] # "."
    ELSE Len(f) + 1
NameStem(f) == SubSeq(f, 1, NameDotAt(f) - 1)
NameExt(f) == SubSeq(f, NameDotAt(f), Len(f))

NameCuts(stem) == { 0, Len(stem) + 1 } \cup { i \in 1..Len(stem) : stem[i] = "_" }
NameCut(stem, j) ==
    CHOOSE c \in NameCuts(stem) : Cardinality({ d \in NameCuts(stem) : d < c }) = j
NameSecs(f) ==
    LET stem == NameStem(f)
    IN  [ j \in 1..(Cardinality(NameCuts(stem)) - 1) |->
            SubSeq(stem, NameCut(stem, j - 1) + 1, NameCut(stem, j) - 1) ]

SecIsBare(s) == \A i \in 1..Len(s) : s[i] # "-"
SecDashAt(s) == CHOOSE i \in 1..Len(s) : s[i] = "-" /\ \A j \in 1..(i - 1) : s[j] # "-"
SecKey(s) == SubSeq(s, 1, SecDashAt(s) - 1)
SecValue(s) == SubSeq(s, SecDashAt(s) + 1, Len(s))

\* the explicit keys of a name, and the sections that carry a given explicit key
ExplicitAt(f, k) == { i \in 1..Len(NameSecs(f)) : ~ SecIsBare(NameSecs(f)[i]) /\ SecKey(NameSecs(f)[i]) = k }
ExplicitKeys(f) == { SecKey(NameSecs(f)[i]) : i \in { j \in 1..Len(NameSecs(f)) : ~ SecIsBare(NameSecs(f)[j]) } }

IsReservedKey(k) ==
    \/ k = KeyExt
    \/ k = KeyModality
    \/ Len(k) >= Len(KeyCustom) /\ SubSeq(k, 1, Len(KeyCustom)) = KeyCustom

NoReservedExplicitKey(f) == \A k \in ExplicitKeys(f) : ~ IsReservedKey(k)
ExplicitKeysDistinct(f) == \A k \in ExplicitKeys(f) : Cardinality(ExplicitAt(f, k)) = 1

\* the state right after info = fn2info(filename) returned
Decoded == pc = "fn2info" /\ err = "none"
\* the state right after the first fn = info2fn(info) on the mapping fn2info(filename)
ReEncoded == pc = "info2fn" /\ origin = "fn2info" /\ nenc = 1

-----------------------------------------------------------------------------
(* Claims                                                                  *)

\* C1: for every name sub-<id>_task-<t>_run-<r>_bold.nii.gz with non-empty id, t
\* and r free of '_', '-' and '.', info2fn(fn2info(f)) returns f itself.
C1_RoundTripStandard ==
    (ReEncoded /\ filename \in StandardNames) => (err = "none" /\ fn = filename)

C1_Witness ==
    /\ ReEncoded
    /\ filename = StandardName(<< "S" >>, << "1" >>, << "S" >>)
    /\ fn = filename

\* C2 as stated: for every name none of whose explicit keys is `ext`, `modality`
\* or starts with `custom`, info2fn(fn2info(f)) returns f, also when the same
\* explicit key stands in two sections.
C2_RoundTripAsStated ==
    (ReEncoded /\ NoReservedExplicitKey(filename)) => fn = filename

\* C2 amended: for every name none of whose explicit keys is `ext`, `modality` or
\* starts with `custom`, and whose explicit keys are pairwise distinct,
\* info2fn(fn2info(f)) returns f; bare sections and empty values are allowed.
C2_RoundTripDistinctKeys ==
    (ReEncoded /\ NoReservedExplicitKey(filename) /\ ExplicitKeysDistinct(filename))
        => (err = "none" /\ fn = filename)

\* a name with two bare sections and an empty value, encoded back
C2_Witness ==
    /\ ReEncoded
    /\ filename = << "a", "_", "_", "-" >>
    /\ fn = filename

\* the bare sections of a name, and whether section i is the one fn2info takes
\* for the modality: the last one, bare, its text in the `modality` list
BareAt(f) == { i \in 1..Len(NameSecs(f)) : SecIsBare(NameSecs(f)[i]) }
IsModalitySec(f, i) ==
    /\ i = Len(NameSecs(f))
    /\ SecIsBare(NameSecs(f)[i])
    /\ NameSecs(f)[i] \in vocab
CustomKey(n) == KeyCustom \o FormatInt(n)
TaskName == << "T", "a", "s", "k", "N", "a", "m", "e" >>

C4_ModalityOnlyDetected ==
    Decoded =>
        LET n == Len(NameSecs(filename))
        IN  /\ DictHas(info, KeyModality) <=> IsModalitySec(filename, n)
            /\ IsModalitySec(filename, n)
                 => DictGet(info, KeyModality) = NameSecs(filename)[n]

\* C4 amended: fn2info gives a bare section the key `modality` if and only if it
\* is the last section of the stem and its text is, case-sensitively, in the
\* modality list; every other bare section gets its custom<N> key, and a section
\* with a '-' yields the key `modality` only by spelling it out before its first
\* '-'. So the mapping has the key `modality` exactly when the last section is
\* detected or a section spells the key, and in the first case the value is the
\* last section's text. fn2info('sub-1_task-S_run-4_bold.nii.gz')['modality'] == 'bold'.
C4_ModalityDetection ==
    Decoded =>
        LET n == Len(NameSecs(filename))
        IN  /\ DictHas(info, KeyModality)
                 <=> (IsModalitySec(filename, n) \/ ExplicitAt(filename, KeyModality) # {})
            /\ IsModalitySec(filename, n)
                 => DictGet(info, KeyModality) = NameSecs(filename)[n]
            /\ \A i \in BareAt(filename) :
                 ~ IsModalitySec(filename, i) => DictHas(info, CustomKey(i))
            /\ filename = Example5
                 => DictGet(info, KeyModality) = << "b", "o", "l", "d" >>

\* the four combinations of the last section: bare or not, in the list or not
LastSec(f) == NameSecs(f)[Len(NameSecs(f))]
C4_Witness ==
    /\ Decoded
    /\ filename = Example5
    /\ DictHas(info, KeyModality)
C4_WitnessBareNotListed ==
    Decoded /\ SecIsBare(LastSec(filename)) /\ LastSec(filename) \notin vocab
        /\ Len(LastSec(filename)) > 0 /\ ~ DictHas(info, KeyModality)
C4_WitnessKeyedListed ==
    Decoded /\ ~ SecIsBare(LastSec(filename)) /\ LastSec(filename) \in vocab
        /\ ~ DictHas(info, KeyModality)
C4_WitnessKeyedNotListed ==
    Decoded /\ ~ SecIsBare(LastSec(filename)) /\ LastSec(filename) \notin vocab
        /\ ~ DictHas(info, KeyModality)

NoDot(t) == \A i \in 1..Len(t) : t[i] # "."

\* C5: fn2info(f)['ext'] is the text of the name from its first '.' to the end
\* ('.dtseries.nii' for the docstring name with two dots) and '' when the name
\* has no '.'; the sections come from the text before that '.' only, so no other
\* entry holds a '.' and the sections joined by '_' give back that text; a name
\* without extension such as 'sub-01_T1w' has ext == '' and is encoded back to
\* itself.
C5_Extension ==
    /\ Decoded =>
          /\ DictHas(info, KeyExt)
          /\ DictGet(info, KeyExt) = NameExt(filename)
          /\ NoDot(filename) => DictGet(info, KeyExt) = << >>
          /\ \A i \in 1..Len(info) :
                info[i][1] # KeyExt => NoDot(info[i][1]) /\ NoDot(info[i][2])
          /\ Sections(Basename(filename), DefaultSecSep) = NameSecs(filename)
          /\ filename = Example3 =>
                DictGet(info, KeyExt)
                    = << ".", "d", "t", "s", "e", "r", "i", "e", "s", ".", "n", "i", "i" >>
    /\ (ReEncoded /\ filename = Example4) => fn = filename
    /\ (ReEncoded /\ NoDot(filename) /\ NoReservedExplicitKey(filename)
            /\ ExplicitKeysDistinct(filename)) => fn = filename

C5_Witness ==
    /\ Decoded
    /\ filename = Example3
    /\ DictGet(info, KeyExt)
         = << ".", "d", "t", "s", "e", "r", "i", "e", "s", ".", "n", "i", "i" >>
C5_WitnessNoExtension ==
    ReEncoded /\ filename = Example4 /\ fn = Example4

\* the key fn2info stores section i of a name under
YieldedKey(f, i) ==
    IF SecIsBare(NameSecs(f)[i])
    THEN IF IsModalitySec(f, i) THEN KeyModality ELSE CustomKey(i)
    ELSE SecKey(NameSecs(f)[i])

DescName ==
    << "d", "e", "s", "c", "-", "a", "-", "b", ".", "n", "i", "i", ".", "g", "z" >>
KeyDesc == << "d", "e", "s", "c" >>

\* C6: for every section with a '-', fn2info takes the text before the first '-'
\* as the key and all the text after that first '-' as the value, which may be
\* empty or hold further '-': the pair it inserts is that one, and the mapping has
\* the value under the key unless the key is `ext` or a later section yields the
\* same key. Section 'desc-a-b' gives desc == 'a-b'; the docstring name with
\* space-fsnative and hemi-L gives space == 'fsnative' and hemi == 'L'.
C6_FirstSeparatorSplit ==
    Decoded =>
        /\ \A i \in 1..Len(NameSecs(filename)) :
              LET s == NameSecs(filename)[i]
              IN  ~ SecIsBare(s) =>
                    /\ KeyValuePairs(UpdateSec(Sections(Basename(filename), DefaultSecSep),
                                               DefaultValueSep, vocab),
                                     DefaultValueSep)[i] = << SecKey(s), SecValue(s) >>
                    /\ DictHas(info, SecKey(s))
                    /\ ( /\ SecKey(s) # KeyExt
                         /\ \A j \in (i + 1)..Len(NameSecs(filename)) :
                               YieldedKey(filename, j) # SecKey(s) )
                          => DictGet(info, SecKey(s)) = SecValue(s)
        /\ filename = DescName => DictGet(info, KeyDesc) = << "a", "-", "b" >>
        /\ filename = Example2 =>
              /\ DictGet(info, << "s", "p", "a", "c", "e" >>)
                   = << "f", "s", "n", "a", "t", "i", "v", "e" >>
              /\ DictGet(info, << "h", "e", "m", "i" >>) = << "L" >>

C6_Witness ==
    /\ Decoded
    /\ filename = DescName
    /\ DictGet(info, KeyDesc) = << "a", "-", "b" >>

\* the encoder's rule, stated on a mapping: the entries other than `ext`, the
\* section of each, and the sections joined by '_' from the left
HasEntry(m, k) == \E i \in 1..Len(m) : m[i][1] = k
EntryValue(m, k) == m[CHOOSE i \in 1..Len(m) : m[i][1] = k][2]
HasExtEntry(m) == \E i \in 1..Len(m) : m[i][1] = KeyExt
ExtEntryValue(m) == m[CHOOSE i \in 1..Len(m) : m[i][1] = KeyExt][2]
IsNotExtEntry(e) == e[1] # KeyExt
OtherEntries(m) == SelectSeq(m, IsNotExtEntry)
RuleSection(e) ==
    IF e[1] = KeyModality \/ (Len(e[1]) >= 6 /\ SubSeq(e[1], 1, 6) = KeyCustom)
    THEN e[2]
    ELSE e[1] \o << "-" >> \o e[2]
RuleSections(m) == [ i \in 1..Len(OtherEntries(m)) |-> RuleSection(OtherEntries(m)[i]) ]
RECURSIVE JoinFirst(_, _)
JoinFirst(parts, n) ==
    IF n = 0 THEN << >>
    ELSE IF n = 1 THEN parts[1]
    ELSE JoinFirst(parts, n - 1) \o << "_" >> \o parts[n]
RuleName(m) ==
    JoinFirst(RuleSections(m), Len(RuleSections(m)))
        \o (IF HasExtEntry(m) THEN ExtEntryValue(m) ELSE << >>)

\* an info2fn call: the only step that counts one more call on the mapping
Info2fnStep == nenc' = nenc + 1

\* C7: info2fn(info) returns the sections joined by '_' and followed by the
\* extension, the section of an entry (k, v) other than `ext` being v alone when
\* k starts with 'custom' or is 'modality', and k + '-' + v otherwise.
C7_EncoderRule ==
    [][Info2fnStep => (err' = "none" /\ fn' = RuleName(info))]_vars

C7_Witness ==
    /\ pc = "info2fn" /\ origin = "caller" /\ nenc = 1
    /\ info = << << KeyCustom \o << "1", "2" >>, << "a", "-", "b" >> >>,
                 << << "c", "u", "s", "t" >>, << >> >> >>
    /\ fn = << "a", "-", "b", "_", "c", "u", "s", "t", "-" >>

\* is `a` obtained from `b` by leaving elements out, the others kept in order
RECURSIVE IsSubsequence(_, _)
IsSubsequence(a, b) ==
    IF Len(a) = 0 THEN TRUE
    ELSE IF Len(b) = 0 THEN FALSE
    ELSE IF a[1] = b[1] THEN IsSubsequence(Tail(a), Tail(b))
    ELSE IsSubsequence(a, Tail(b))

\* the keys the sections of a name yield, each listed once, at its first section
YieldedKeys(f) == [ i \in 1..Len(NameSecs(f)) |-> YieldedKey(f, i) ]
RECURSIVE FirstOccurrences(_, _)
FirstOccurrences(keys, n) ==
    IF n = 0 THEN << >>
    ELSE IF \E j \in 1..(n - 1) : keys[j] = keys[n]
         THEN FirstOccurrences(keys, n - 1)
         ELSE Append(FirstOccurrences(keys, n - 1), keys[n])
IsNotExtKey(k) == k # KeyExt
YieldedKeysDistinct(f) ==
    \A i, j \in 1..Len(NameSecs(f)) : i # j => YieldedKey(f, i) # YieldedKey(f, j)

\* the sections info2fn has written for the entries left in the mapping
WrittenSections == [ i \in 1..Len(info) |-> RuleSection(info[i]) ]

ReorderName ==
    << "d", "e", "s", "c", "-", "a", "-", "b", "_", "T", "1", "w", "_",
       "d", "e", "s", "c", "-", ".", "n", "i", "i", ".", "g", "z" >>

\* C8 as stated: the entries of fn2info(f) are in the left-to-right order of the
\* sections of f and info2fn writes them in that order, so the sections of the
\* encoded name are sections of f in the order they have in f (for a name whose
\* explicit keys are not reserved, so that every section is written back whole).
C8_NeverReorders ==
    (ReEncoded /\ NoReservedExplicitKey(filename))
        => IsSubsequence(WrittenSections, NameSecs(filename))

\* C8 amended: the entries of fn2info(f) other than `ext` are in the left-to-right
\* order of the first section that yields each key (a later section with the
\* same key replaces the value in place), and info2fn writes the sections in the
\* mapping's order; so encoding a decoded name whose sections yield pairwise
\* distinct keys, none of them reserved by an explicit key, writes the sections
\* of f in their order.
C8_FirstOccurrenceOrder ==
    /\ Decoded =>
          [ i \in 1..Len(OtherEntries(info)) |-> OtherEntries(info)[i][1] ]
              = SelectSeq(FirstOccurrences(YieldedKeys(filename), Len(NameSecs(filename))),
                          IsNotExtKey)
    /\ (ReEncoded /\ NoReservedExplicitKey(filename) /\ YieldedKeysDistinct(filename))
          => WrittenSections = NameSecs(filename)

C8_Witness ==
    /\ ReEncoded
    /\ filename = ReorderName
    /\ WrittenSections = << << "d", "e", "s", "c", "-" >>, << "T", "1", "w" >> >>

\* C9: after info2fn(m) returns, m has no key `ext`, and its other entries are
\* the ones it had, with their values, in their order.
C9_EncoderRemovesExt ==
    [][Info2fnStep => (~ HasExtEntry(info') /\ info' = OtherEntries(info))]_vars

\* a decoded mapping of three entries and `ext`, after its first info2fn call
C9_Witness ==
    /\ ReEncoded
    /\ filename \in StandardNames
    /\ Len(info) = 4
    /\ ~ HasExtEntry(info)

\* C10: info2fn on a mapping without the key `ext` raises no error, returns the
\* joined sections with nothing appended, and leaves the mapping as it was.
C10_MissingExt ==
    [][(Info2fnStep /\ ~ HasExtEntry(info))
          => /\ err' = "none"
             /\ fn' = JoinFirst(RuleSections(info), Len(RuleSections(info)))
             /\ info' = info]_vars

\* the second info2fn call on a decoded mapping: `ext` went with the first call
C10_Witness ==
    /\ pc = "info2fn" /\ origin = "fn2info" /\ nenc = 2
    /\ filename = Example5
    /\ err = "none"
    /\ fn = << "s", "u", "b", "-", "1", "_", "t", "a", "s", "k", "-", "S", "_",
               "r", "u", "n", "-", "4", "_", "b", "o", "l", "d" >>
C10_WitnessCallerMapping ==
    /\ pc = "info2fn" /\ origin = "caller" /\ nenc = 1
    /\ info = << << KeyModality, << "a", "-", "b" >> >> >>
    /\ fn = << "a", "-", "b" >>

-----------------------------------------------------------------------------
(* Totality, key collisions and multi-character separators                 *)

\* C11: with the default separators fn2info raises no exception, whatever
\* the string: the empty string, a name with no '-', a name that begins with
\* '.', a name with leading, trailing or consecutive '_'.  Every section
\* without a key of its own gets a placeholder key, custom<N> or modality, that
\* is a key of the mapping returned.
C11_DecoderTotal ==
    pc = "fn2info" =>
        /\ err = "none"
        /\ \A i \in BareAt(filename) :
              /\ YieldedKey(filename, i) \in { CustomKey(i), KeyModality }
              /\ HasEntry(info, YieldedKey(filename, i))

\* '_a__' decoded: a leading, a trailing and two consecutive '_', no '-', and
\* four placeholder keys
C11_Witness ==
    /\ pc = "fn2info"
    /\ filename = << "_", "a", "_", "_" >>
    /\ err = "none"
    /\ Len(info) = 5
C11_WitnessEmptyName ==
    /\ pc = "fn2info"
    /\ filename = << >>
    /\ info = << << CustomKey(1), << >> >>, << KeyExt, << >> >> >>
C11_WitnessLeadingDot ==
    /\ pc = "fn2info"
    /\ filename = << ".", "a" >>
    /\ info = << << CustomKey(1), << >> >>, << KeyExt, << ".", "a" >> >> >>

\* the value a section yields: the text after its first '-', or the whole
\* section when it has none; and the last section that yields the key k
YieldedValue(f, i) ==
    IF SecIsBare(NameSecs(f)[i]) THEN NameSecs(f)[i] ELSE SecValue(NameSecs(f)[i])
YieldersOf(f, k) == { i \in 1..Len(NameSecs(f)) : YieldedKey(f, i) = k }
LastYielder(f, k) == CHOOSE i \in YieldersOf(f, k) : \A j \in YieldersOf(f, k) : j <= i
CollidingKeys(f) ==
    { YieldedKey(f, i) : i \in { j \in 1..Len(NameSecs(f)) :
                                   Cardinality(YieldersOf(f, YieldedKey(f, j))) >= 2 } }
EntriesOf(m, k) == { i \in 1..Len(m) : m[i][1] = k }

\* C12 as stated: when two sections of a filename yield the same key (two
\* equal explicit keys, or an explicit key equal to a synthesized custom<N> or
\* modality key), fn2info raises no error and the mapping holds exactly one
\* entry for that key, whose value is that of the later section.
C12_LaterSectionWins ==
    pc = "fn2info" =>
        /\ err = "none"
        /\ \A k \in CollidingKeys(filename) :
              /\ Cardinality(EntriesOf(info, k)) = 1
              /\ EntryValue(info, k) = YieldedValue(filename, LastYielder(filename, k))

\* C12: when two sections of a filename yield the same key other than `ext`
\* (two equal explicit keys, or an explicit key equal to a synthesized
\* custom<N> or modality key), fn2info raises no error and the mapping holds
\* exactly one entry for that key, whose value is that of the last section that
\* yields it; for the key `ext` the one entry holds the extension.
C12_LastWriteWins ==
    pc = "fn2info" =>
        /\ err = "none"
        /\ \A k \in CollidingKeys(filename) :
              /\ Cardinality(EntriesOf(info, k)) = 1
              /\ EntryValue(info, k) =
                    IF k = KeyExt THEN NameExt(filename)
                    ELSE YieldedValue(filename, LastYielder(filename, k))

\* 'custom2-y_t1w_T1w.nii.gz' decoded: the explicit key custom2 of the first
\* section is also the placeholder of the second, whose value stays
C12_Witness ==
    /\ pc = "fn2info"
    /\ filename = KeyCustom \o << "2", "-", "y", "_", "t", "1", "w", "_", "T", "1", "w",
                                  ".", "n", "i", "i", ".", "g", "z" >>
    /\ info = << << CustomKey(2), << "t", "1", "w" >> >>,
                 << KeyModality, << "T", "1", "w" >> >>,
                 << KeyExt, << ".", "n", "i", "i", ".", "g", "z" >> >> >>
\* two equal explicit keys, and an explicit key `modality` before a modality token
C12_WitnessExplicitTwice ==
    /\ pc = "fn2info"
    /\ filename = << "d", "e", "s", "c", "-", "a", "-", "b", "_", "d", "e", "s", "c", "-",
                     ".", "n", "i", "i", ".", "g", "z" >>
    /\ info = << << KeyDesc, << >> >>, << KeyExt, << ".", "n", "i", "i", ".", "g", "z" >> >> >>
C12_WitnessModality ==
    /\ pc = "fn2info"
    /\ filename = KeyModality \o << "-", "x", "_", "T", "1", "w", ".", "n", "i", "i", ".", "g", "z" >>
    /\ info = << << KeyModality, << "T", "1", "w" >> >>,
                 << KeyExt, << ".", "n", "i", "i", ".", "g", "z" >> >> >>

\* a section read with a separator of any length: where its first whole
\* occurrence starts, the text before it and the text after the whole of it
SepMatches(s, sep, i) ==
    /\ i + Len(sep) - 1 <= Len(s)
    /\ \A j \in 1..Len(sep) : s[i + j - 1] = sep[j]
SecHasSep(s, sep) == \E i \in 1..Len(s) : SepMatches(s, sep, i)
SecSepAt(s, sep) ==
    CHOOSE i \in 1..Len(s) : SepMatches(s, sep, i) /\ \A j \in 1..(i - 1) : ~ SepMatches(s, sep, j)
SecKeyBefore(s, sep) == SubSeq(s, 1, SecSepAt(s, sep) - 1)
SecValueAfter(s, sep) == SubSeq(s, SecSepAt(s, sep) + Len(sep), Len(s))

\* the sections of f whose text before the separator is k
YieldersSep(f, sep, k) ==
    { i \in 1..Len(NameSecs(f)) :
        SecHasSep(NameSecs(f)[i], sep) /\ SecKeyBefore(NameSecs(f)[i], sep) = k }

\* a name all of whose sections hold the separator, with pairwise distinct,
\* unreserved keys
KeyedName(f, sep) ==
    /\ \A i \in 1..Len(NameSecs(f)) :
          /\ SecHasSep(NameSecs(f)[i], sep)
          /\ ~ IsReservedKey(SecKeyBefore(NameSecs(f)[i], sep))
    /\ \A i, j \in 1..Len(NameSecs(f)) :
          i # j => SecKeyBefore(NameSecs(f)[i], sep) # SecKeyBefore(NameSecs(f)[j], sep)

\* C13: with a multi-character value_sep such as '--', fn2info splits a section
\* at the first whole occurrence of the separator: the key is the text before
\* it and the value is the text after the complete separator, so that no
\* character of the separator is left at the head of the value; and info2fn
\* with the same separators gives the filename back.
C13_MultiCharSeparator ==
    /\ (pc = "fn2info" /\ vsep = DoubleDash) =>
          /\ err = "none"
          /\ \A i \in 1..Len(NameSecs(filename)) :
                LET s == NameSecs(filename)[i]
                IN  (SecHasSep(s, vsep) /\ Cardinality(YieldersSep(filename, vsep, SecKeyBefore(s, vsep))) = 1
                        /\ SecKeyBefore(s, vsep) # KeyExt)
                      => /\ HasEntry(info, SecKeyBefore(s, vsep))
                         /\ EntryValue(info, SecKeyBefore(s, vsep)) = SecValueAfter(s, vsep)
    /\ (ReEncoded /\ vsep = DoubleDash /\ KeyedName(filename, vsep)) => fn = filename

-----------------------------------------------------------------------------
(* runcmd                                                                  *)

\* the commands of a call, as the caller wrote them
GivenCmds(c) == IF c.cmd_list.t = "str" THEN << c.cmd_list.s >> ELSE c.cmd_list.l

C14_WitnessList ==
    /\ call.name = "runcmd"
    /\ call.cmd_list = [ t |-> "list", s |-> << >>, l |-> << << "l", "s" >>, << "c", "d", " ", "x" >> >> ]
    /\ call.run_cmd
    /\ call.ret_status = << << 0 >>, << 1 >> >>
C14_WitnessNotRun ==
    /\ call.name = "runcmd"
    /\ call.cmd_list = [ t |-> "list", s |-> << >>, l |-> << << "l", "s" >>, << "l", "s" >> >> ]
    /\ ~ call.run_cmd
    /\ shell.ran = << >>
    /\ call.ret_status = << << >>, << >> >>

-----------------------------------------------------------------------------
(* setup                                                                   *)

SetupStep == call.name = "start" /\ call'.name \in { "setup", "fs_setup" }
FsHomeSet(env) == env["FREESURFER_HOME"] # << >> /\ env["FREESURFER_HOME"] # << << >> >>

\* C15: a call of setup with force false does not overwrite $FREESURFER_HOME
\* when it is already set to a non-empty value; the variable is overwritten
\* only when it was unset (or empty) or force is true.
C15_KeepsFreesurferHome ==
    [][SetupStep =>
         /\ (~ call.force /\ FsHomeSet(environ))
               => environ'["FREESURFER_HOME"] = environ["FREESURFER_HOME"]
         /\ environ'["FREESURFER_HOME"] # environ["FREESURFER_HOME"]
               => (~ FsHomeSet(environ) \/ call.force)]_vars

-----------------------------------------------------------------------------
(* scaffold                                                                *)

\* the file `name` of the folder $BIDS_DIR names in the environment env
InBidsDir(env, name) == env["BIDS_DIR"][1] \o << "/" >> \o name
TheThree == { << ".", "b", "i", "d", "s", "i", "g", "n", "o", "r", "e" >>, << "p", "a", "r", "t", "i", "c", "i", "p", "a", "n", "t", "s", ".", "t", "s", "v" >>, << "R", "E", "A", "D", "M", "E", ".", "m", "d" >> }
Exists(dsk, f) == dsk.files[f] # << >>
Wrote(c, name) == \E i \in 1..Len(c.wrote) : c.wrote[i] = name
\* a call of scaffold that returned
ScaffoldReturns == call'.name = "scaffold" /\ call'.err = "none"

\* C16: scaffold(force=False) never overwrites an existing .bidsignore,
\* participants.tsv or README.md of the BIDS folder and creates each of the
\* three that is missing, so that all three exist after it returns; with
\* force=True all three are written anew.  A second scaffold(force=False)
\* right after a first one changes no file.
C16_Scaffold ==
    [][ScaffoldReturns =>
         /\ \A n \in TheThree :
              LET f == InBidsDir(environ, n)
              IN  /\ Exists(disk', f)
                  /\ (~ call'.force /\ Exists(disk, f))
                        => (disk'.files[f] = disk.files[f] /\ ~ Wrote(call', n))
                  /\ (~ call'.force /\ ~ Exists(disk, f)) => Wrote(call', n)
                  /\ call'.force => (Wrote(call', n) /\ disk'.files[f] # << UserContent >>)
         /\ \A f \in DOMAIN disk.files :
              (\A n \in TheThree : f # InBidsDir(environ, n)) => disk'.files[f] = disk.files[f]
         /\ (call.name = "scaffold" /\ call.err = "none" /\ ~ call.force /\ ~ call'.force)
               => (disk' = disk /\ call'.wrote = << >>)]_vars

\* scaffold(force=False) returned: the user's .bidsignore is as it was and the
\* two missing files were written
C16_Witness ==
    /\ call.name = "scaffold" /\ ~ call.force /\ call.err = "none"
    /\ environ["BIDS_DIR"] = << DirA >>
    /\ disk.files[InBidsDir(environ, << ".", "b", "i", "d", "s", "i", "g", "n", "o", "r", "e" >>)] = << UserContent >>
    /\ call.wrote = << << "p", "a", "r", "t", "i", "c", "i", "p", "a", "n", "t", "s", ".", "t", "s", "v" >>, << "R", "E", "A", "D", "M", "E", ".", "m", "d" >> >>
    /\ disk.files[InBidsDir(environ, << "p", "a", "r", "t", "i", "c", "i", "p", "a", "n", "t", "s", ".", "t", "s", "v" >>)]
         = << << << "p", "a", "r", "t", "i", "c", "i", "p", "a", "n", "t", "_", "i", "d" >>, << "s", "u", "b", "-", "0", "1" >>, << "s", "u", "b", "-", "0", "2" >> >> >>
    /\ disk.files[InBidsDir(environ, << "R", "E", "A", "D", "M", "E", ".", "m", "d" >>)] # << >>
\* scaffold(force=True) returned: the three files of the user are written anew
C16_WitnessForce ==
    /\ call.name = "scaffold" /\ call.force /\ call.err = "none"
    /\ Len(call.wrote) = 3
    /\ \A n \in TheThree : /\ Exists(disk, InBidsDir(environ, n))
                           /\ disk.files[InBidsDir(environ, n)] # << UserContent >>
\* a scaffold(force=False) that found the three files and wrote none
C16_WitnessSecond ==
    /\ call.name = "scaffold" /\ ~ call.force /\ call.err = "none"
    /\ call.wrote = << >>
    /\ \E n \in TheThree : disk.files[InBidsDir(environ, n)] \notin { << >>, << UserContent >> }

-----------------------------------------------------------------------------
(* bidsdir                                                                 *)

\* C20: bidsdir(d, set_dir=True) sets $BIDS_DIR to d, a call with
\* set_dir=False leaves $BIDS_DIR as it is, and a call without bids_dir works
\* with the current $BIDS_DIR.  Hence, after a bidsdir(d, set_dir=True) that
\* returned, every later bidsdir(set_dir=False), whatever calls come between,
\* returns d, until another call with set_dir=True names a different directory.
C20_BidsDir ==
    [][call'.name = "bidsdir" =>
         /\ (call'.set_dir /\ call'.dir # << >>) => environ'["BIDS_DIR"] = call'.dir
         /\ ~ call'.set_dir => environ' = environ
         /\ (call'.dir = << >> /\ call'.err = "none") => call'.ret_dir = environ["BIDS_DIR"]
         /\ (call.last_set # << >> /\ call'.dir = << >> /\ ~ call'.set_dir)
               => /\ call'.err = "none"
                  /\ call'.ret_dir = call.last_set
                  /\ call'.last_set = call.last_set]_vars

\* bidsdir(set_dir=False) returns '/B', the directory of an earlier
\* bidsdir('/B', set_dir=True)
C20_Witness ==
    /\ call.name = "bidsdir" /\ call.dir = << >> /\ ~ call.set_dir
    /\ call.last_set = << << "/", "B" >> >>
    /\ call.ret_dir = << << "/", "B" >> >>
    /\ call.ret_list = << << "s", "u", "b", "x" >> >>
    /\ call.err = "none"
\* bidsdir('/G', set_dir=True) wrote the variable, then could not list '/G'
C20_WitnessGone ==
    /\ call.name = "bidsdir" /\ call.dir = << << "/", "G" >> >> /\ call.set_dir
    /\ environ["BIDS_DIR"] = << << "/", "G" >> >>
    /\ call.err = "FileNotFoundError"

-----------------------------------------------------------------------------
(* fpdir                                                                   *)

\* the directory fpdir is to work with, for the arguments c of the call and
\* the environment env before it: None when fp_dir is empty and
\* $FMRIPREP_DIR is unset
WantedFpDir(c, env) ==
    IF c.dir = << >> THEN env["FMRIPREP_DIR"]
    ELSE IF c.dir = env["BIDS_DIR"]
    THEN << c.dir[1] \o << "/", "d", "e", "r", "i", "v", "a", "t", "i", "v", "e", "s", "/" >> \o (IF c.legacy THEN << "f", "m", "r", "i", "p", "r", "e", "p" >> ELSE << >>) >>
    ELSE c.dir
\* the same directory, whether or not the path ends with a separator
SameDir(a, b) ==
    \/ a = b
    \/ a = b \o << "/" >>
    \/ b = a \o << "/" >>
DirExists(dsk, path) == \E d \in DOMAIN dsk.tree : SameDir(d, path)
\* fpdir looks $BIDS_DIR up through bidsdir, which lists it, when fp_dir is given
BidsDirListable(env, dsk) ==
    env["BIDS_DIR"] = << >> \/ DirExists(dsk, env["BIDS_DIR"][1])
FpdirStep == call'.name = "fpdir"

\* C19 as stated: the directory fpdir works with is $FMRIPREP_DIR when fp_dir
\* is empty, <BIDS_DIR>/derivatives/fmriprep (legacy) or <BIDS_DIR>/derivatives
\* when fp_dir is the current BIDS directory, and fp_dir itself otherwise;
\* $FMRIPREP_DIR is written exactly when set_dir is true, $BIDS_DIR is never
\* changed, and when the directory does not exist the subject list is empty
\* instead of an error.
C19_FpdirAsStated ==
    [][(FpdirStep /\ WantedFpDir(call', environ) # << >>) =>
         LET want == WantedFpDir(call', environ)[1]
         IN  /\ call'.err = "none" => SameDir(call'.ret_dir[1], want)
             /\ call'.set_dir => /\ environ'["FMRIPREP_DIR"] # << >>
                                 /\ SameDir(environ'["FMRIPREP_DIR"][1], want)
             /\ ~ call'.set_dir => environ'["FMRIPREP_DIR"] = environ["FMRIPREP_DIR"]
             /\ environ'["BIDS_DIR"] = environ["BIDS_DIR"]
             /\ ~ DirExists(disk, want) => (call'.err = "none" /\ call'.ret_list = << >>)]_vars

\* C19: the same, for the calls that get as far as the directory: those with
\* an empty fp_dir and $FMRIPREP_DIR set, and those with an fp_dir while
\* $BIDS_DIR is unset or names a directory that exists.  Such a call returns the
\* directory ('<BIDS_DIR>/derivatives/' with a trailing separator when not
\* legacy), writes it to $FMRIPREP_DIR exactly when set_dir is true, and
\* returns an empty subject list when the directory does not exist.  Every
\* other call raises an error and writes nothing; no call changes $BIDS_DIR.
C19_Fpdir ==
    [][FpdirStep =>
         LET want == WantedFpDir(call', environ)
             reaches == /\ want # << >>
                        /\ call'.dir # << >> => BidsDirListable(environ, disk)
         IN  /\ reaches =>
                   /\ call'.err = "none"
                   /\ call'.ret_dir = want
                   /\ call'.set_dir => environ'["FMRIPREP_DIR"] = want
                   /\ ~ call'.set_dir => environ'["FMRIPREP_DIR"] = environ["FMRIPREP_DIR"]
                   /\ ~ DirExists(disk, want[1]) => call'.ret_list = << >>
             /\ ~ reaches => (call'.err # "none" /\ environ' = environ)
             /\ environ'["BIDS_DIR"] = environ["BIDS_DIR"]]_vars

\* fpdir('/A') with $BIDS_DIR '/A': the legacy folder, with its subject
C19_Witness ==
    /\ call.name = "fpdir" /\ call.dir = << << "/", "A" >> >> /\ call.legacy /\ call.set_dir
    /\ environ["BIDS_DIR"] = << << "/", "A" >> >>
    /\ call.ret_dir = << << "/", "A", "/", "d", "e", "r", "i", "v", "a", "t", "i", "v", "e", "s", "/", "f", "m", "r", "i", "p", "r", "e", "p" >> >>
    /\ environ["FMRIPREP_DIR"] = << << "/", "A", "/", "d", "e", "r", "i", "v", "a", "t", "i", "v", "e", "s", "/", "f", "m", "r", "i", "p", "r", "e", "p" >> >>
    /\ call.ret_list = << << "s", "u", "b", "-", "0", "1" >> >>
\* the same call with legacy=False and set_dir=False
C19_WitnessNotLegacy ==
    /\ call.name = "fpdir" /\ call.dir = << << "/", "A" >> >> /\ ~ call.legacy /\ ~ call.set_dir
    /\ environ["BIDS_DIR"] = << << "/", "A" >> >>
    /\ environ["FMRIPREP_DIR"] = << >>
    /\ call.ret_dir = << << "/", "A", "/", "d", "e", "r", "i", "v", "a", "t", "i", "v", "e", "s", "/" >> >>
    /\ call.ret_list = << >>
\* fpdir() with $FMRIPREP_DIR '/G', which does not exist
C19_WitnessGone ==
    /\ call.name = "fpdir" /\ call.dir = << >>
    /\ environ["FMRIPREP_DIR"] = << << "/", "G" >> >>
    /\ call.ret_dir = << << "/", "G" >> >>
    /\ call.ret_list = << >>
    /\ call.err = "none"
\* fpdir('/B', set_dir=True) while $BIDS_DIR is '/G': bidsdir cannot list it
C19_WitnessStaleBidsDir ==
    /\ call.name = "fpdir" /\ call.dir = << << "/", "B" >> >> /\ call.set_dir
    /\ environ["BIDS_DIR"] = << << "/", "G" >> >>
    /\ call.err = "FileNotFoundError"

-----------------------------------------------------------------------------
(* dcm2bids                                                                *)

\* the subject folders a call converts and the session folders of each, read
\* from the disk
GivenSubjs(c) ==
    IF c.dcm_subj.t = "str" THEN << << "s", "1" >>, << "s", " ", "2" >> >> ELSE c.dcm_subj.l
SesFoldersOf(dsk, subj) ==
    { d \in DOMAIN dsk.tree : \E n \in { << "r", "1" >>, << "r", "2" >> } : d = << "/", "A", "/", "s", "o", "u", "r", "c", "e", "d", "a", "t", "a", "/" >> \o subj \o << "/" >> \o n }
\* the number of commands for a subject: one, or one per session folder
CmdsFor(dsk, subj, is_ses) ==
    IF is_ses # 0 /\ SesFoldersOf(dsk, subj) # {} THEN Cardinality(SesFoldersOf(dsk, subj)) ELSE 1
RECURSIVE CmdsForAll(_, _, _)
CmdsForAll(dsk, subjs, is_ses) ==
    IF subjs = << >> THEN 0
    ELSE CmdsFor(dsk, Head(subjs), is_ses) + CmdsForAll(dsk, Tail(subjs), is_ses)
IsWholeCommand(cmd) ==
    /\ Len(cmd) > Len(<< "d", "c", "m", "2", "b", "i", "d", "s", " ", "-", "d", " " >>)
    /\ SubSeq(cmd, 1, Len(<< "d", "c", "m", "2", "b", "i", "d", "s", " ", "-", "d", " " >>)) = << "d", "c", "m", "2", "b", "i", "d", "s", " ", "-", "d", " " >>
    /\ SubSeq(cmd, Len(cmd) - Len(<< " ", "-", "-", "c", "l", "o", "b", "b", "e", "r" >>) + 1, Len(cmd)) = << " ", "-", "-", "c", "l", "o", "b", "b", "e", "r" >>

\* C17: the cmdlist dcm2bids returns is a list of complete dcm2bids command
\* strings: exactly one per subject when the subject has no sub-folders or is_ses
\* is false, one per session sub-folder when is_ses is truthy; and the status
\* list has one entry per command.
C17_CommandPerSubject ==
    (call.name = "dcm2bids" /\ call.err = "none") =>
        /\ Len(call.ret_cmd_list) = CmdsForAll(disk, GivenSubjs(call), call.is_ses)
        /\ \A i \in 1..Len(call.ret_cmd_list) : IsWholeCommand(call.ret_cmd_list[i])
        /\ Len(call.ret_status) = Len(call.ret_cmd_list)

-----------------------------------------------------------------------------
(* cpevent                                                                 *)

\* a call that got as far as the statements under `# set session info`
ReachedSession(c) == c.name = "cpevent" /\ c.stage \in { "session", "files" }
\* the session folder the claim gives for the parameter ses, '' for None
HasSesPrefix(s) == Len(s) >= 4 /\ SubSeq(s, 1, 4) = << "s", "e", "s", "-" >>
SesFolder(ses) ==
    IF ses.t = "none" THEN << >>
    ELSE IF ses.t = "int" THEN << "s", "e", "s", "-" >> \o FormatInt(ses.n) \o << "/" >>
    ELSE IF HasSesPrefix(ses.s) THEN ses.s \o << "/" >>
    ELSE << "s", "e", "s", "-" >> \o ses.s \o << "/" >>

\* C18: with ses=None cpevent does not fail in its session handling and looks
\* for the runs in <BIDS_DIR>/<subj_code>/func; an int ses, or a str ses without
\* the prefix 'ses-', is normalised to 'ses-<ses>', and a str that starts with
\* 'ses-' is used as it is.
C18_SessionHandling ==
    ReachedSession(call) =>
        /\ call.stage # "session"
        /\ call.func_dir # << >> =>
             call.func_dir = << << "/", "A", "/" >> \o call.subj_code \o << "/" >> \o SesFolder(call.ses) \o << "f", "u", "n", "c" >> >>

-----------------------------------------------------------------------------
(* totemplate                                                              *)

\* the names given: the one name of a str, the names of a list
GivenNames(a) == IF a.t = "str" THEN << a.s >> ELSE a.l
\* the text p stands somewhere in the text x
Occurs(p, x) == \E i \in 0..(Len(x) - Len(p)) : SubSeq(x, i + 1, i + Len(p)) = p
\* the places in the patterns of those that occur in x
Found(patterns, x) == { j \in 1..Len(patterns) : Occurs(patterns[j], x) }

\* C21: totemplate returns one entry per input name: the pattern found in it
\* when exactly one of the patterns occurs, default_str when none occurs, and
\* 'multiple' when at least two of the patterns occur.
C21_TotemplateResult ==
    call.name = "totemplate" =>
        LET names == GivenNames(call.ana_list)
        IN  /\ Len(call.ret) = Len(names)
            /\ \A i \in 1..Len(names) :
                 LET found == Found(call.patterns, names[i])
                 IN  call.ret[i] =
                       IF Cardinality(found) = 0 THEN call.default_str
                       ELSE IF Cardinality(found) = 1
                       THEN call.patterns[CHOOSE j \in found : TRUE]
                       ELSE << "m", "u", "l", "t", "i", "p", "l", "e" >>

-----------------------------------------------------------------------------
(* The ext entry, path stripping, independent results                      *)

\* C22: every mapping returned by fn2info has exactly one `ext` entry, whose
\* value is the empty string or begins with '.'; it is the last entry of the
\* mapping, except that when a section itself produced the key `ext` the
\* section's value is overwritten by the extension (the entry stays where that
\* section put it).
C22_ExtEntry ==
    Decoded =>
        /\ Cardinality(EntriesOf(info, KeyExt)) = 1
        /\ \A i \in EntriesOf(info, KeyExt) :
             /\ info[i][2] = << >> \/ info[i][2][1] = "."
             /\ IF YieldersOf(filename, KeyExt) = {}
                THEN i = Len(info)
                ELSE /\ info[i][2] = NameExt(filename)
                     /\ \A j \in 1..(i - 1) :
                          \E x \in 1..Len(NameSecs(filename)) :
                             /\ YieldedKey(filename, x) = info[j][1]
                             /\ \E y \in YieldersOf(filename, KeyExt) : x < y

\* 'ext-z_T1w.nii.gz': the entry of the section ext-z, holding '.nii.gz', before
\* the entry of T1w
C22_Witness ==
    /\ Decoded
    /\ filename = << "e", "x", "t", "-", "z", "_", "T", "1", "w", ".", "n", "i", "i", ".", "g", "z" >>
    /\ info = << << KeyExt, << ".", "n", "i", "i", ".", "g", "z" >> >>, << KeyModality, << "T", "1", "w" >> >> >>

\* a name without '.': the last entry is ext with the empty string
C22_WitnessLast ==
    /\ Decoded
    /\ filename = Example4
    /\ info[Len(info)] = << KeyExt, << >> >>

\* the base name of a path: the text after its last '/'
PathBase(f) ==
    LET cuts == { i \in 1..Len(f) : f[i] = "/" }
    IN  IF cuts = {} THEN f
        ELSE SubSeq(f, (CHOOSE i \in cuts : \A j \in cuts : j <= i) + 1, Len(f))
HasSlash(s) == \E i \in 1..Len(s) : s[i] = "/"

\* C23: fn2info depends only on the base name: for every directory prefix p
\* (directory names with '.', '_' or '-' too) and base name b,
\* fn2info(p + '/' + b) == fn2info(b); the directory is neither resolved nor
\* represented in the mapping.
C23_PathStripping ==
    (pc = "fn2info" /\ HasSlash(filename)) =>
        /\ err = "none"
        /\ info = fn2info(PathBase(filename), DefaultSecSep, DefaultValueSep, modality).info
        /\ \A i \in 1..Len(info) : ~ HasSlash(info[i][1]) /\ ~ HasSlash(info[i][2])
        /\ DictGet(info, KeyExt) = NameExt(PathBase(filename))

\* a directory name with '.', '_' and '-' in front of 'sub-01_T1w.nii.gz'
C23_Witness ==
    /\ Decoded
    /\ filename = << "d", ".", "a", "_", "b", "-", "c", "/", "s", "u", "b", "-", "0", "1", "_", "T", "1", "w", ".", "n", "i", "i", ".", "g", "z" >>
    /\ info = << << << "s", "u", "b" >>, << "0", "1" >> >>, << KeyModality, << "T", "1", "w" >> >>, << KeyExt, << ".", "n", "i", "i", ".", "g", "z" >> >> >>

C24_WitnessCleared ==
    /\ pc = "fn2info"
    /\ Len(held) = 2
    /\ held[1] = << >>
    /\ held[2] = info
    /\ info # << >>

-----------------------------------------------------------------------------
(* Separators with a meaning in regular expressions                        *)

\* C25: fn2info treats value_sep as literal text: for every single-character
\* value_sep, the characters with a meaning in regular expressions such as '.',
\* '+', '|' or '*' included, it raises no error, a section that holds the
\* separator is split at its first literal occurrence, and a bare section keeps
\* its whole text as the value under its custom<N> or modality key.
C25_LiteralSeparators ==
    (pc = "fn2info" /\ Len(vsep) = 1) =>
        /\ err = "none"
        /\ \A i \in 1..Len(NameSecs(filename)) :
             LET s == NameSecs(filename)[i]
                 bare_key == IF i = Len(NameSecs(filename)) /\ s \in vocab
                             THEN KeyModality ELSE CustomKey(i)
             IN  IF SecHasSep(s, vsep)
                 THEN (Cardinality(YieldersSep(filename, vsep, SecKeyBefore(s, vsep))) = 1
                         /\ SecKeyBefore(s, vsep) # KeyExt)
                        => /\ HasEntry(info, SecKeyBefore(s, vsep))
                           /\ EntryValue(info, SecKeyBefore(s, vsep)) = SecValueAfter(s, vsep)
                 ELSE YieldersSep(filename, vsep, bare_key) = {}
                        => /\ HasEntry(info, bare_key)
                           /\ EntryValue(info, bare_key) = s

-----------------------------------------------------------------------------
(* The session check of fixfmap                                            *)

\* the ses values the names of a list of files carry, read from the text
SesOfName(f) ==
    { SecValue(NameSecs(f)[j]) :
        j \in { k \in 1..Len(NameSecs(f)) :
                  ~ SecIsBare(NameSecs(f)[k]) /\ SecKey(NameSecs(f)[k]) = << "s", "e", "s" >> } }
SesCarried(files) == UNION { SesOfName(PathBase(files[i])) : i \in 1..Len(files) }
AllCarrySes(files) == \A i \in 1..Len(files) : SesOfName(PathBase(files[i])) # {}

\* the list IntendedFor is to hold for the matched files under a prefix
IntendedUnder(prefix, files) ==
    PyList([ i \in 1..Len(files) |-> prefix \o << "f", "u", "n", "c", "/" >> \o PathBase(files[i]) ])

\* the json file of a pass holds this list as IntendedFor and its other
\* fields as they were read
SavedWith(p, intended) ==
    LET now == disk.files[p.fmap]
    IN  /\ now # None
        /\ HasEntry(now[1], << "I", "n", "t", "e", "n", "d", "e", "d", "F", "o", "r" >>) /\ EntryValue(now[1], << "I", "n", "t", "e", "n", "d", "e", "d", "F", "o", "r" >>) = intended
        /\ \A i \in 1..Len(p.val) :
              p.val[i][1] # << "I", "n", "t", "e", "n", "d", "e", "d", "F", "o", "r" >> =>
                 HasEntry(now[1], p.val[i][1]) /\ EntryValue(now[1], p.val[i][1]) = p.val[i][2]
        /\ \A i \in 1..Len(now[1]) :
              now[1][i][1] # << "I", "n", "t", "e", "n", "d", "e", "d", "F", "o", "r" >> => HasEntry(p.val, now[1][i][1])

\* C26: with a wildcard as intend_list, fixfmap raises its Exception only when
\* the files matched for a json file carry more than one distinct ses value;
\* when the matched files carry no ses the json file gets 'func/<basename>'
\* paths, when all carry the same value s it gets 'ses-<s>/func/<basename>'
\* paths, and every other field of the json file is kept.
C26_SessionCheck ==
    (call.name = "fixfmap" /\ IsStr(call.intend_list)) =>
        /\ call.err = "Exception" =>
              \E i \in 1..Len(call.seen) : Cardinality(SesCarried(call.seen[i].intendfiles)) > 1
        /\ \A i \in 1..Len(call.seen) :
              LET m == call.seen[i].intendfiles
              IN  /\ (m # << >> /\ SesCarried(m) = {}) =>
                        SavedWith(call.seen[i], IntendedUnder(<< >>, m))
                  /\ (AllCarrySes(m) /\ Cardinality(SesCarried(m)) = 1) =>
                        \A s \in SesCarried(m) :
                           SavedWith(call.seen[i], IntendedUnder(<< "s", "e", "s", "-" >> \o s \o << "/" >>, m))

-----------------------------------------------------------------------------
(* $PATH after setup                                                       *)

\* the entries of a PATH value: the texts between its ':'
Colons(p) == { 0, Len(p) + 1 } \cup { i \in 1..Len(p) : p[i] = ":" }
PathEntries(p) ==
    { SubSeq(p, c[1] + 1, c[2] - 1) :
        c \in { d \in Colons(p) \X Colons(p) :
                  d[1] < d[2] /\ \A k \in Colons(p) : ~ (d[1] < k /\ k < d[2]) } }
EndsWith(p, tail) ==
    Len(p) >= Len(tail) /\ SubSeq(p, Len(p) - Len(tail) + 1, Len(p)) = tail

\* C27: after a setup that went past its early return and raised nothing,
\* $PATH has the four entries /usr/local/bin, <fs_dir>/tktools,
\* <fs_dir>/fsfast/bin and <fs_dir>/bin (fs_dir as $FREESURFER_HOME has it),
\* the PATH of before the call follows them, and FSFAST_HOME,
\* FSF_OUTPUT_FORMAT and MNI_DIR are set.
C27_PathAfterSetup ==
    [][(SetupStep /\ call'.err = "none" /\ ~ (call.force /\ FsHomeSet(environ))) =>
         /\ environ'["PATH"] # << >>
         /\ { << "/", "usr", "/", "local", "/", "bin" >>,
              environ'["FREESURFER_HOME"][1] \o << "/", "tktools" >>,
              environ'["FREESURFER_HOME"][1] \o << "/", "fsfast", "/", "bin" >>,
              environ'["FREESURFER_HOME"][1] \o << "/", "bin" >> }
               \subseteq PathEntries(environ'["PATH"][1])
         /\ environ["PATH"] # << >> =>
               EndsWith(environ'["PATH"][1], << ":" >> \o environ["PATH"][1])
         /\ \A n \in { "FSFAST_HOME", "FSF_OUTPUT_FORMAT", "MNI_DIR" } : environ'[n] # << >>]_vars

-----------------------------------------------------------------------------
(* info2fn called again on the same mapping                                *)

\* the sections of the entries other than `ext`, joined
StemName(m) == JoinFirst(RuleSections(m), Len(RuleSections(m)))

\* C28: the first info2fn call on a mapping with a non-empty `ext` returns the
\* joined sections followed by the extension; every later call on the same
\* object returns the joined sections alone and leaves the mapping as it is,
\* so that all later calls return the same name.
C28_RepeatedEncoding ==
    [][Info2fnStep =>
         /\ (nenc = 0 /\ HasExtEntry(info) /\ ExtEntryValue(info) # << >>) =>
               /\ fn' = StemName(info) \o ExtEntryValue(info)
               /\ fn' # StemName(info)
               /\ StemName(info') = StemName(info)
         /\ nenc >= 1 =>
               /\ info' = info
               /\ fn' = StemName(info)
               /\ nenc >= 2 => fn' = fn]_vars

\* a name with an extension, decoded and encoded three times: the third call
\* returned the name without its extension
C28_Witness ==
    /\ nenc >= 3
    /\ origin = "fn2info"
    /\ filename \in StandardNames
    /\ NameExt(filename) # << >>
    /\ fn = NameStem(filename)
    /\ ~ HasExtEntry(info)

=============================================================================
